---- MODULE Spec2Model ----
(***************************************************************************)
(* Model of the strategy engine of algoX (app/src/utils/strategies.ts).    *)
(*                                                                         *)
(* One behaviour is one call of runStrategy(type, data, params).  Every    *)
(* strategy function is a single for-loop over the bars followed by the    *)
(* "close open trade at end" block; one step of the model is one           *)
(* iteration of that loop (the action named after the strategy function)   *)
(* or the block after the loop (EndOfData).                                *)
(*                                                                         *)
(* The bar the loop reads at index i and the values the indicator arrays   *)
(* hold at index i are inputs of the iteration.  Indicator values with a   *)
(* fixed long window (SMA50, SMA200, RSI14, MACD, ...) are drawn from      *)
(* small sets, but whether the value is defined or NaN at an index is      *)
(* computed by the warm-up rule of the indicator function.  The ATR of     *)
(* the atr-trailing strategy is computed from the bars by the true-range   *)
(* formula and the EMA recurrence, in exact rational arithmetic.           *)
(* Percentages (pnlPercent, deviation, stop levels) are exact rationals;   *)
(* the rounding of IEEE doubles is not modelled.  Timestamps of bars are   *)
(* strictly increasing: the date of bar i is i.  The reason strings are    *)
(* modelled without the numbers that the code interpolates into them.      *)
(***************************************************************************)
EXTENDS Integers, Sequences, FiniteSets, TLC

\* number of bars the loop may evaluate beyond its start index
MaxBars == 3

\* longest bar series handed to generateEquityCurve on its own
MaxCurveBars == 3

\* number of bars the strategy loop evaluates in a backtest
MaxBacktestBars == 3

VARIABLES strategy, params, n, pc, i, data, ind,
          currentTrade, trades, signals, tradeId, highestPrice, trailingStop

\* runBacktest: the config, the loop of generateEquityCurve and the metrics
VARIABLES config, candle, equity, peakEquity, openTrade, openTradeEntryValue,
          equityCurve, metrics

curveVars == <<candle, equity, peakEquity, openTrade, openTradeEntryValue, equityCurve>>

backtestVars == <<config, curveVars, metrics>>

\* optimizeStrategy: its arguments, the combinations, the loop over them and the results
VARIABLES paramRanges, metricToOptimize, combinations, combo, results, optimum

\* compareStrategies: the entries to compare; the loop position and the results are
\* kept in combo and results
VARIABLES strategies

optimizeVars == <<paramRanges, metricToOptimize, combinations, combo, results, optimum,
                  strategies>>

vars == <<strategy, params, n, pc, i, data, ind,
          currentTrade, trades, signals, tradeId, highestPrice, trailingStop,
          backtestVars, optimizeVars>>

-----------------------------------------------------------------------------
(* Numbers *)

\* the value `undefined marker' of an indicator series
NaN == -999999

isNaN(x) == x = NaN

\* JavaScript comparisons: false as soon as one operand is NaN
Lt(a, b) == ~isNaN(a) /\ ~isNaN(b) /\ a < b
Gt(a, b) == ~isNaN(a) /\ ~isNaN(b) /\ a > b
Le(a, b) == ~isNaN(a) /\ ~isNaN(b) /\ a <= b
Ge(a, b) == ~isNaN(a) /\ ~isNaN(b) /\ a >= b

Max(a, b) == IF a >= b THEN a ELSE b
Abs(a) == IF a < 0 THEN -a ELSE a

RECURSIVE GCD(_, _)
GCD(a, b) == IF b = 0 THEN a ELSE GCD(b, a % b)

\* exact rationals n/d with d > 0, kept in lowest terms
Rat(num, den) ==
  LET s == IF den < 0 THEN -1 ELSE 1
      g == GCD(Abs(num), Abs(den))
  IN  [n |-> (s * num) \div g, d |-> (s * den) \div g]

RatOf(k) == [n |-> k, d |-> 1]
RatAdd(a, b) == Rat(a.n * b.d + b.n * a.d, a.d * b.d)
RatSub(a, b) == Rat(a.n * b.d - b.n * a.d, a.d * b.d)
RatMul(a, b) == Rat(a.n * b.n, a.d * b.d)
RatNeg(a) == [n |-> -a.n, d |-> a.d]
RatAbs(a) == [n |-> Abs(a.n), d |-> a.d]
RatLt(a, b) == LET g == GCD(a.d, b.d) IN a.n * (b.d \div g) < b.n * (a.d \div g)
RatLe(a, b) == LET g == GCD(a.d, b.d) IN a.n * (b.d \div g) <= b.n * (a.d \div g)
RatGe(a, b) == RatLe(b, a)
\* a / b for b # 0
RatDiv(a, b) == Rat(a.n * b.d, a.d * b.n)

\* JavaScript numbers that may be non-finite: a rational, or d = 0 with
\* n = 0 for NaN, n = 1 for Infinity and n = -1 for -Infinity (no negative zero)
XNaN == [n |-> 0, d |-> 0]
Infinity == [n |-> 1, d |-> 0]
Sgn(x) == IF x > 0 THEN 1 ELSE IF x < 0 THEN -1 ELSE 0
XIsNaN(a) == a.d = 0 /\ a.n = 0
XNeg(a) == [n |-> -a.n, d |-> a.d]
XAbs(a) == [n |-> Abs(a.n), d |-> a.d]

XAdd(a, b) ==
  IF XIsNaN(a) \/ XIsNaN(b) THEN XNaN
  ELSE IF a.d = 0 /\ b.d = 0 THEN (IF a.n = b.n THEN a ELSE XNaN)
  ELSE IF a.d = 0 THEN a
  ELSE IF b.d = 0 THEN b
  ELSE LET g == GCD(a.d, b.d)
       IN Rat(a.n * (b.d \div g) + b.n * (a.d \div g), (a.d \div g) * b.d)

XSub(a, b) == XAdd(a, XNeg(b))

XMul(a, b) ==
  IF XIsNaN(a) \/ XIsNaN(b) THEN XNaN
  ELSE IF a.d = 0 \/ b.d = 0
    THEN (IF a.n = 0 \/ b.n = 0 THEN XNaN ELSE [n |-> Sgn(a.n) * Sgn(b.n), d |-> 0])
  ELSE LET g1 == GCD(Abs(a.n), b.d)
           g2 == GCD(Abs(b.n), a.d)
       IN [n |-> (a.n \div g1) * (b.n \div g2), d |-> (a.d \div g2) * (b.d \div g1)]

\* a / b as JavaScript evaluates it, a zero denominator included
XDiv(a, b) ==
  IF XIsNaN(a) \/ XIsNaN(b) THEN XNaN
  ELSE IF b.d = 0 THEN (IF a.d = 0 THEN XNaN ELSE RatOf(0))
  ELSE IF b.n = 0 THEN (IF a.n = 0 THEN XNaN ELSE [n |-> Sgn(a.n), d |-> 0])
  ELSE IF a.d = 0 THEN [n |-> Sgn(a.n) * Sgn(b.n), d |-> 0]
  ELSE XMul(a, [n |-> Sgn(b.n) * b.d, d |-> Abs(b.n)])

\* a < b and a > b, false when an operand is NaN
XLt(a, b) ==
  /\ ~XIsNaN(a) /\ ~XIsNaN(b)
  /\ IF a.d = 0 /\ b.d = 0 THEN a.n < b.n
     ELSE IF a.d = 0 THEN a.n < 0
     ELSE IF b.d = 0 THEN b.n > 0
     ELSE RatLt(a, b)
XGt(a, b) == XLt(b, a)

RECURSIVE XSum(_)
XSum(s) == IF s = <<>> THEN RatOf(0) ELSE XAdd(XSum(SubSeq(s, 1, Len(s) - 1)), s[Len(s)])

\* c * sqrt(q) for a number c and a rational q > 0
Surd(c, q) == [c |-> c, q |-> q]

\* Math.sqrt(x)
Sqrt(x) ==
  IF XIsNaN(x) \/ XLt(x, RatOf(0)) THEN Surd(XNaN, RatOf(1))
  ELSE IF x.d = 0 \/ x.n = 0 THEN Surd(x, RatOf(1))
  ELSE Surd(RatOf(1), x)

-----------------------------------------------------------------------------
(* Parameters *)

StrategyTypes == {"mean-reversion", "momentum", "vwap-bounce", "rsi", "breakout",
                  "ema-crossover", "stochastic", "atr-trailing", "combined"}

\* const { key = default } = params
Param(key, default) == IF key \in DOMAIN params THEN params[key] ELSE default

NoParams == [k \in {} |-> 0]
WideStops == [stopLossPercent |-> RatOf(5), takeProfitPercent |-> RatOf(6)]

\* the parameter maps a run is started with
ParamSets(s) ==
  CASE s = "breakout" ->
         {[lookbackPeriod |-> 1], [lookbackPeriod |-> 2],
          [lookbackPeriod |-> 1, stopLossPercent |-> RatOf(5), takeProfitPercent |-> RatOf(6)]}
    [] s = "atr-trailing" ->
         {NoParams, [stopLossPercent |-> RatOf(2), takeProfitPercent |-> RatOf(3)],
          [lookbackPeriod |-> -2]}
    [] s = "combined" -> {NoParams, [stopLossPercent |-> RatOf(5), takeProfitPercent |-> RatOf(3)]}
    [] s = "mean-reversion" ->
         {NoParams, WideStops, [stdDevMultiplier |-> 0], [stdDevMultiplier |-> -4]}
    [] OTHER -> {NoParams, WideStops}

\* first index of the for-loop of each strategy function
StartIndex(s, p) ==
  LET P(key, default) == IF key \in DOMAIN p THEN p[key] ELSE default
  IN CASE s = "mean-reversion" -> P("lookbackPeriod", 20) + 14
       [] s = "momentum"       -> Max(P("slowPeriod", 26), 200)
       [] s = "vwap-bounce"    -> 20
       [] s = "rsi"            -> 50
       [] s = "breakout"       -> P("lookbackPeriod", 20)
       [] s = "ema-crossover"  -> Max(P("fastPeriod", 9), P("slowPeriod", 21)) + 1
       [] s = "stochastic"     -> 50
       [] s = "atr-trailing"   -> P("lookbackPeriod", 14) + 20
       [] s = "combined"       -> 50

\* number of bars before the current one that an iteration reads
PriorBars(s, p) ==
  CASE s \in {"momentum", "rsi", "ema-crossover", "stochastic", "atr-trailing"} -> 1
    [] s = "breakout" -> p.lookbackPeriod
    [] OTHER -> 0

-----------------------------------------------------------------------------
(* Indicator library: the value at index j of each series.  v is the value *)
(* the formula yields once its window is full.                             *)

\* SMAAt with a silent zero in place of the undefined marker
SMAAt_Zero(j, period, v) == IF j < period - 1 THEN 0 ELSE v

\* result.push(NaN) while i < period - 1, then the mean of the window
SMAAt(j, period, v) == IF j < period - 1 THEN NaN ELSE v

StdDevAt(j, period, v) == IF j < period - 1 THEN NaN ELSE v

RSIAt(j, period, v) == IF j = 0 \/ j < period THEN NaN ELSE v

\* the EMA is seeded with the running mean and is defined at every index
EMAAt(j, period, v) == v

BollingerAt(middle, stdDevValue, stdDev) ==
  IF isNaN(middle) \/ isNaN(stdDevValue)
    THEN [upper |-> NaN, middle |-> middle, lower |-> NaN]
    ELSE [upper  |-> middle + stdDev * stdDevValue,
          middle |-> middle,
          lower  |-> middle - stdDev * stdDevValue]

MACDAt(j, fastPeriod, slowPeriod, signalPeriod, m, s) ==
  [macd |-> EMAAt(j, fastPeriod, m), signal |-> EMAAt(j, signalPeriod, s)]

\* %K is NaN before kPeriod-1; %D = SMA(%K, dPeriod) is NaN while its window holds a NaN
StochasticAt(j, kPeriod, dPeriod, k, d) ==
  [k |-> IF j < kPeriod - 1 THEN NaN ELSE k,
   d |-> IF j < dPeriod - 1 \/ j - (dPeriod - 1) < kPeriod - 1 THEN NaN ELSE d]

\* the VWAP falls back to the typical price and is defined at every index
VWAPAt(j, v) == v

\* ema[j] = (x - ema[j-1]) * 2/(period+1) + ema[j-1], the branch taken for j >= period-1
EMAStep(prev, x, period) ==
  RatAdd(RatMul(RatSub(x, prev), Rat(2, period + 1)), prev)

\* true range of bar b after the bar with close prevClose, then ATR = EMA(TR, period)
TrueRange(b, prevClose) ==
  Max(Max(b.high - b.low, Abs(b.high - prevClose)), Abs(b.low - prevClose))

ATRAt(prevAtr, b, prevClose, period) ==
  EMAStep(prevAtr, RatOf(TrueRange(b, prevClose)), period)

-----------------------------------------------------------------------------
(* Trades and signals *)

null == <<>>

OpenTrade(id, date, price) ==
  [id |-> id, entryDate |-> date, entryPrice |-> price,
   type |-> "LONG", size |-> 1, status |-> "OPEN"]

pnlPercent(price, entryPrice) == Rat((price - entryPrice) * 100, entryPrice)

\* the assignments that close currentTrade, then { ...currentTrade }
CloseTrade(t, date, price, reason) ==
  [id |-> t.id, entryDate |-> t.entryDate, entryPrice |-> t.entryPrice,
   type |-> t.type, size |-> t.size,
   exitDate |-> date, exitPrice |-> price,
   pnl |-> price - t.entryPrice,
   pnlPercent |-> pnlPercent(price, t.entryPrice),
   status |-> "CLOSED", exitReason |-> reason]

Signal(date, type, price, reason) ==
  [date |-> date, type |-> type, price |-> price, reason |-> reason]

Bar(high, low, close, date) == [high |-> high, low |-> low, close |-> close, date |-> date]

\* a bar whose high, low and close coincide
FlatBar(c, date) == Bar(c, c, c, date)

\* ExitReason with the stop-loss tested before the technical exit
ExitReason_StopFirst(a, ra, b, rb, rc) == IF b THEN rb ELSE IF a THEN ra ELSE rc

\* if (a) reason = ra; else if (b) reason = rb; else reason = rc
ExitReason(a, ra, b, rb, rc) == IF a THEN ra ELSE IF b THEN rb ELSE rc


-----------------------------------------------------------------------------
(* The loop body shared by the strategy functions: the isNaN guard with    *)
(* `continue', then entry when flat, else exit when in position.           *)

\* PositionStep with the entry test repeated after an exit on the same bar
PositionStep_Reenter(bar, skip, entry, entryReason, exit, exitReason) ==
  IF skip
    THEN UNCHANGED <<currentTrade, trades, signals, tradeId>>
    ELSE IF currentTrade = null
      THEN IF entry
             THEN /\ currentTrade' = OpenTrade(tradeId, bar.date, bar.close)
                  /\ tradeId' = tradeId + 1
                  /\ signals' = Append(signals, Signal(bar.date, "BUY", bar.close, entryReason))
                  /\ UNCHANGED trades
             ELSE UNCHANGED <<currentTrade, trades, signals, tradeId>>
      ELSE IF exit
             THEN /\ trades' = Append(trades, CloseTrade(currentTrade, bar.date, bar.close, exitReason))
                  /\ IF entry
                       THEN /\ currentTrade' = OpenTrade(tradeId, bar.date, bar.close)
                            /\ tradeId' = tradeId + 1
                            /\ signals' = signals \o
                                 <<Signal(bar.date, "EXIT", bar.close, exitReason),
                                   Signal(bar.date, "BUY", bar.close, entryReason)>>
                       ELSE /\ currentTrade' = null
                            /\ signals' = Append(signals, Signal(bar.date, "EXIT", bar.close, exitReason))
                            /\ UNCHANGED tradeId
             ELSE UNCHANGED <<currentTrade, trades, signals, tradeId>>

PositionStep(bar, skip, entry, entryReason, exit, exitReason) ==
  IF skip
    THEN UNCHANGED <<currentTrade, trades, signals, tradeId>>
    ELSE IF currentTrade = null
      THEN IF entry
             THEN /\ currentTrade' = OpenTrade(tradeId, bar.date, bar.close)
                  /\ tradeId' = tradeId + 1
                  /\ signals' = Append(signals, Signal(bar.date, "BUY", bar.close, entryReason))
                  /\ UNCHANGED trades
             ELSE UNCHANGED <<currentTrade, trades, signals, tradeId>>
      ELSE IF exit
             THEN /\ trades' = Append(trades, CloseTrade(currentTrade, bar.date, bar.close, exitReason))
                  /\ signals' = Append(signals, Signal(bar.date, "EXIT", bar.close, exitReason))
                  /\ currentTrade' = null
                  /\ UNCHANGED tradeId
             ELSE UNCHANGED <<currentTrade, trades, signals, tradeId>>

\* the loop reads bar i and the indicator values at i, then i++
Advance(bar, indicators) ==
  /\ i' = i + 1
  /\ data' = data @@ (i :> bar)
  /\ ind' = ind @@ (i :> indicators)
  /\ UNCHANGED <<strategy, params, n, pc, backtestVars, optimizeVars>>

InLoop(s) == strategy = s /\ pc = "scan" /\ i < n

\* pnlPercent of the open position at close price, compared with the stop and the target
StopLossHit(price, stopLossPercent) ==
  currentTrade # null /\
  RatLe(pnlPercent(price, currentTrade.entryPrice), RatNeg(stopLossPercent))

TakeProfitHit(price, takeProfitPercent) ==
  currentTrade # null /\
  RatGe(pnlPercent(price, currentTrade.entryPrice), takeProfitPercent)

-----------------------------------------------------------------------------
(* STRATEGY 1: mean reversion *)

MeanReversionCloses == {90, 93, 105}

MeanReversionInd(j) ==
  LET lookbackPeriod == Param("lookbackPeriod", 20)
      stdDevMultiplier == Param("stdDevMultiplier", 2)
  IN { [bb  |-> BollingerAt(SMAAt(j, lookbackPeriod, 102),
                            StdDevAt(j, lookbackPeriod, sd), stdDevMultiplier),
        rsi |-> RSIAt(j, 14, r)] : sd \in {3, 4}, r \in {20, 80} }

\* the loop body testing the upper band before the middle band and the stop
meanReversionStrategy_TrailingFirst ==
  /\ InLoop("mean-reversion")
  /\ \E price \in MeanReversionCloses, x \in MeanReversionInd(i) :
       LET bar == FlatBar(price, i)
           stopLossPercent == Param("stopLossPercent", RatOf(2))
           takeProfitHit == Ge(price, x.bb.middle) \/ Gt(x.rsi, 70)
           stopLossHit == StopLossHit(price, stopLossPercent)
           trailingStopHit == Gt(price, x.bb.upper)
       IN /\ PositionStep(bar,
                 isNaN(x.bb.lower) \/ isNaN(x.rsi),
                 Lt(price, x.bb.lower) /\ Lt(x.rsi, 30),
                 "Mean Reversion",
                 takeProfitHit \/ stopLossHit \/ trailingStopHit,
                 ExitReason(trailingStopHit, "Trailing Stop: Price above upper band",
                            takeProfitHit, "Take Profit: Price reached middle band or RSI overbought",
                            "Stop Loss"))
          /\ Advance(bar, x)
  /\ UNCHANGED <<highestPrice, trailingStop>>

meanReversionStrategy ==
  /\ InLoop("mean-reversion")
  /\ \E price \in MeanReversionCloses, x \in MeanReversionInd(i) :
       LET bar == FlatBar(price, i)
           stopLossPercent == Param("stopLossPercent", RatOf(2))
           takeProfitHit == Ge(price, x.bb.middle) \/ Gt(x.rsi, 70)
           stopLossHit == StopLossHit(price, stopLossPercent)
           trailingStopHit == Gt(price, x.bb.upper)
       IN /\ PositionStep(bar,
                 isNaN(x.bb.lower) \/ isNaN(x.rsi),
                 Lt(price, x.bb.lower) /\ Lt(x.rsi, 30),
                 "Mean Reversion",
                 takeProfitHit \/ stopLossHit \/ trailingStopHit,
                 ExitReason(takeProfitHit, "Take Profit: Price reached middle band or RSI overbought",
                            stopLossHit, "Stop Loss",
                            "Trailing Stop: Price above upper band"))
          /\ Advance(bar, x)
  /\ UNCHANGED <<highestPrice, trailingStop>>

-----------------------------------------------------------------------------
(* STRATEGY 2: momentum *)

Closes == {96, 100, 105}

MomentumInd(j) ==
  LET fastPeriod == Param("fastPeriod", 12)
      slowPeriod == Param("slowPeriod", 26)
  IN { [macd   |-> MACDAt(j, fastPeriod, slowPeriod, 9, v[1], 0),
        sma50  |-> SMAAt(j, 50, 98),
        sma200 |-> SMAAt(j, 200, v[2])] :
          v \in {<<-1, 97>>, <<1, 97>>, <<1, 98>>, <<1, 99>>} }

\* the entry test with the trend filter dropped
MomentumEntry_NoTrend(macdCrossUp, uptrend) == macdCrossUp

\* if (macdCrossUp && uptrend)
MomentumEntry(macdCrossUp, uptrend) == macdCrossUp /\ uptrend

momentumStrategy ==
  /\ InLoop("momentum")
  /\ \E price \in Closes, x \in MomentumInd(i) :
       LET bar == FlatBar(price, i)
           prev == ind[i - 1]
           stopLossPercent == Param("stopLossPercent", RatOf(2))
           takeProfitPercent == Param("takeProfitPercent", RatOf(4))
           macdCrossUp == Gt(x.macd.macd, x.macd.signal) /\ Le(prev.macd.macd, prev.macd.signal)
           macdCrossDown == Lt(x.macd.macd, x.macd.signal) /\ Ge(prev.macd.macd, prev.macd.signal)
           uptrend == Gt(price, x.sma50) /\ Gt(x.sma50, x.sma200)
           stopLossHit == StopLossHit(price, stopLossPercent)
           takeProfitHit == TakeProfitHit(price, takeProfitPercent)
       IN /\ PositionStep(bar,
                 isNaN(x.macd.macd) \/ isNaN(x.sma50) \/ isNaN(x.sma200),
                 MomentumEntry(macdCrossUp, uptrend),
                 "Momentum",
                 macdCrossDown \/ stopLossHit \/ takeProfitHit,
                 ExitReason(macdCrossDown, "MACD cross down", stopLossHit, "Stop Loss", "Take Profit"))
          /\ Advance(bar, x)
  /\ UNCHANGED <<highestPrice, trailingStop>>

-----------------------------------------------------------------------------
(* STRATEGY 3: VWAP bounce *)

VwapInd(j) ==
  { [vwap |-> VWAPAt(j, v[1]), rsi |-> RSIAt(j, 14, v[2])] :
      v \in {<<100, 50>>, <<106, 50>>, <<100, 70>>} }

vwapBounceStrategy ==
  /\ InLoop("vwap-bounce")
  /\ \E price \in Closes, x \in VwapInd(i) :
       LET bar == FlatBar(price, i)
           vwapDeviation == Param("vwapDeviation", Rat(1, 2))
           stopLossPercent == Param("stopLossPercent", Rat(3, 2))
           takeProfitPercent == Param("takeProfitPercent", Rat(5, 2))
           skip == isNaN(x.vwap) \/ isNaN(x.rsi)
           deviation == IF skip THEN RatOf(0) ELSE Rat((price - x.vwap) * 100, x.vwap)
           vwapReturn == RatLt(RatAbs(deviation), Rat(1, 10))
           stopLossHit == StopLossHit(price, stopLossPercent)
           takeProfitHit == TakeProfitHit(price, takeProfitPercent)
       IN /\ PositionStep(bar,
                 skip,
                 RatLt(deviation, RatNeg(vwapDeviation)) /\ Gt(x.rsi, 30) /\ Lt(x.rsi, 60),
                 "VWAP Bounce",
                 vwapReturn \/ stopLossHit \/ takeProfitHit,
                 ExitReason(vwapReturn, "Price returned to VWAP", stopLossHit, "Stop Loss", "Take Profit"))
          /\ Advance(bar, x)
  /\ UNCHANGED <<highestPrice, trailingStop>>

-----------------------------------------------------------------------------
(* STRATEGY 4: RSI *)

RsiInd(j) ==
  { [rsi |-> RSIAt(j, 14, r), sma50 |-> SMAAt(j, 50, 98)] : r \in {20, 50, 80} }

rsiStrategy ==
  /\ InLoop("rsi")
  /\ \E price \in Closes, x \in RsiInd(i) :
       LET bar == FlatBar(price, i)
           prev == ind[i - 1]
           rsiOversold == Param("rsiOversold", 30)
           rsiOverbought == Param("rsiOverbought", 70)
           stopLossPercent == Param("stopLossPercent", RatOf(2))
           takeProfitPercent == Param("takeProfitPercent", RatOf(3))
           rsiCrossUp == Gt(x.rsi, rsiOversold) /\ Le(prev.rsi, rsiOversold)
           aboveSMA == Gt(price, x.sma50)
           rsiExit == Gt(x.rsi, rsiOverbought)
           stopLossHit == StopLossHit(price, stopLossPercent)
           takeProfitHit == TakeProfitHit(price, takeProfitPercent)
       IN /\ PositionStep(bar,
                 isNaN(x.rsi) \/ isNaN(x.sma50),
                 rsiCrossUp /\ aboveSMA,
                 "RSI",
                 rsiExit \/ stopLossHit \/ takeProfitHit,
                 ExitReason(rsiExit, "RSI overbought", stopLossHit, "Stop Loss", "Take Profit"))
          /\ Advance(bar, x)
  /\ UNCHANGED <<highestPrice, trailingStop>>


-----------------------------------------------------------------------------
(* STRATEGY 5: breakout *)

\* half of the high-low range of the bars the breakout scan reads
BreakoutRanges == {0, 2}

\* data.slice(i - lookbackPeriod, i)
Slice(lookbackPeriod) == {data[j] : j \in (i - lookbackPeriod)..(i - 1)}

HighestHigh(bars) == CHOOSE h \in {b.high : b \in bars} : \A b \in bars : b.high <= h
LowestLow(bars) == CHOOSE l \in {b.low : b \in bars} : \A b \in bars : l <= b.low

\* BreakoutEntry that also fires when the high only equals the previous high
BreakoutEntry_AtLeast(bar, highestHigh) == bar.high >= highestHigh

\* the entry test of the breakout loop
BreakoutEntry(bar, highestHigh) == bar.high > highestHigh

breakoutStrategy ==
  /\ InLoop("breakout")
  /\ \E price \in Closes, r \in BreakoutRanges :
       LET bar == Bar(price + r, price - r, price, i)
           lookbackPeriod == Param("lookbackPeriod", 20)
           stopLossPercent == Param("stopLossPercent", RatOf(2))
           takeProfitPercent == Param("takeProfitPercent", RatOf(4))
           slice == Slice(lookbackPeriod)
           breakdown == price < LowestLow(slice)
           stopLossHit == StopLossHit(price, stopLossPercent)
           takeProfitHit == TakeProfitHit(price, takeProfitPercent)
       IN /\ i \in DOMAIN data => bar = data[i]
          /\ PositionStep(bar,
                 FALSE,
                 BreakoutEntry(bar, HighestHigh(slice)),
                 "Breakout",
                 breakdown \/ stopLossHit \/ takeProfitHit,
                 ExitReason(breakdown, "Breakdown", stopLossHit, "Stop Loss", "Take Profit"))
          /\ Advance(bar, NoParams)
  /\ UNCHANGED <<highestPrice, trailingStop>>

-----------------------------------------------------------------------------
(* STRATEGY 6: EMA crossover *)

EmaInd(j) ==
  LET fastPeriod == Param("fastPeriod", 9)
      slowPeriod == Param("slowPeriod", 21)
  IN { [fastEMA |-> EMAAt(j, fastPeriod, f), slowEMA |-> EMAAt(j, slowPeriod, 100)] :
         f \in {99, 101} }

emaCrossoverStrategy ==
  /\ InLoop("ema-crossover")
  /\ \E price \in Closes, x \in EmaInd(i) :
       LET bar == FlatBar(price, i)
           prev == ind[i - 1]
           stopLossPercent == Param("stopLossPercent", RatOf(2))
           takeProfitPercent == Param("takeProfitPercent", RatOf(3))
           crossUp == Gt(x.fastEMA, x.slowEMA) /\ Le(prev.fastEMA, prev.slowEMA)
           crossDown == Lt(x.fastEMA, x.slowEMA) /\ Ge(prev.fastEMA, prev.slowEMA)
           stopLossHit == StopLossHit(price, stopLossPercent)
           takeProfitHit == TakeProfitHit(price, takeProfitPercent)
       IN /\ PositionStep(bar,
                 isNaN(x.fastEMA) \/ isNaN(x.slowEMA),
                 crossUp,
                 "EMA Crossover",
                 crossDown \/ stopLossHit \/ takeProfitHit,
                 ExitReason(crossDown, "EMA cross down", stopLossHit, "Stop Loss", "Take Profit"))
          /\ Advance(bar, x)
  /\ UNCHANGED <<highestPrice, trailingStop>>

-----------------------------------------------------------------------------
(* STRATEGY 7: stochastic *)

StochasticInd(j) ==
  { [stoch |-> StochasticAt(j, 14, 3, v[1], v[2]), sma50 |-> SMAAt(j, 50, 98)] :
      v \in {<<10, 15>>, <<15, 10>>, <<85, 90>>} }

stochasticStrategy ==
  /\ InLoop("stochastic")
  /\ \E price \in Closes, x \in StochasticInd(i) :
       LET bar == FlatBar(price, i)
           prev == ind[i - 1]
           stopLossPercent == Param("stopLossPercent", RatOf(2))
           takeProfitPercent == Param("takeProfitPercent", RatOf(3))
           kCrossUp == Gt(x.stoch.k, x.stoch.d) /\ Le(prev.stoch.k, prev.stoch.d)
           kCrossDown == Lt(x.stoch.k, x.stoch.d) /\ Ge(prev.stoch.k, prev.stoch.d)
           oversold == Lt(x.stoch.k, 20)
           overbought == Gt(x.stoch.k, 80)
           aboveSMA == Gt(price, x.sma50)
           stochExit == kCrossDown /\ overbought
           stopLossHit == StopLossHit(price, stopLossPercent)
           takeProfitHit == TakeProfitHit(price, takeProfitPercent)
       IN /\ PositionStep(bar,
                 isNaN(x.stoch.k) \/ isNaN(x.stoch.d) \/ isNaN(x.sma50),
                 kCrossUp /\ oversold /\ aboveSMA,
                 "Stochastic",
                 stochExit \/ stopLossHit \/ takeProfitHit,
                 ExitReason(stochExit, "Stochastic overbought crossover",
                            stopLossHit, "Stop Loss", "Take Profit"))
          /\ Advance(bar, x)
  /\ UNCHANGED <<highestPrice, trailingStop>>

-----------------------------------------------------------------------------
(* STRATEGY 8: ATR trailing stop *)

\* half of the high-low range of a bar, with the SMA20 value at that bar
AtrInputs == {<<0, 97>>, <<0, 99>>, <<10, 99>>}

RatIsNaN(r) == r.d = 0

\* StopHit with a percentage stop-loss added to the trailing stop
StopHit_OrStopLoss(price, stop) ==
  RatLt(RatOf(price), stop) \/ StopLossHit(price, Param("stopLossPercent", RatOf(2)))

\* the stop test of the ATR loop
StopHit(price, stop) == RatLt(RatOf(price), stop)

\* trailingStop = price - atr[i] * atrMultiplier
TrailingStopAt(price, atr, atrMultiplier) ==
  RatSub(RatOf(price), RatMul(atr, RatOf(atrMultiplier)))

atrTrailingStopStrategy ==
  /\ InLoop("atr-trailing")
  /\ \E price \in Closes, v \in AtrInputs :
       LET lookbackPeriod == Param("lookbackPeriod", 14)
           atrMultiplier == Param("atrMultiplier", 3)
           bar == Bar(price + v[1], price - v[1], price, i)
           prev == ind[i - 1]
           x == [sma20 |-> SMAAt(i, 20, v[2]),
                 atr |-> ATRAt(prev.atr, bar, data[i - 1].close, lookbackPeriod)]
           aboveSMA == Gt(price, x.sma20)
           smaRising == Gt(x.sma20, prev.sma20)
           newHigh == price > highestPrice
           stop == IF newHigh THEN TrailingStopAt(price, x.atr, atrMultiplier) ELSE trailingStop
       IN /\ IF isNaN(x.sma20) \/ RatIsNaN(x.atr)
               THEN UNCHANGED <<currentTrade, trades, signals, tradeId, highestPrice, trailingStop>>
               ELSE IF currentTrade = null
                 THEN IF aboveSMA /\ smaRising
                        THEN /\ currentTrade' = OpenTrade(tradeId, bar.date, price)
                             /\ tradeId' = tradeId + 1
                             /\ highestPrice' = price
                             /\ trailingStop' = TrailingStopAt(price, x.atr, atrMultiplier)
                             /\ signals' = Append(signals, Signal(bar.date, "BUY", price, "ATR Trailing"))
                             /\ UNCHANGED trades
                        ELSE UNCHANGED <<currentTrade, trades, signals, tradeId,
                                         highestPrice, trailingStop>>
                 ELSE IF StopHit(price, stop)
                        THEN /\ trades' = Append(trades, CloseTrade(currentTrade, bar.date, price,
                                                                    "ATR Trailing Stop hit"))
                             /\ signals' = Append(signals, Signal(bar.date, "EXIT", price,
                                                                  "ATR Trailing Stop"))
                             /\ currentTrade' = null
                             /\ highestPrice' = 0
                             /\ trailingStop' = RatOf(0)
                             /\ UNCHANGED tradeId
                        ELSE /\ highestPrice' = IF newHigh THEN price ELSE highestPrice
                             /\ trailingStop' = stop
                             /\ UNCHANGED <<currentTrade, trades, signals, tradeId>>
          /\ Advance(bar, x)

-----------------------------------------------------------------------------
(* STRATEGY 9: combined *)

CombinedCloses == {96, 100, 103}

CombinedInd(j) ==
  { [sma20 |-> SMAAt(j, 20, 98),
     rsi   |-> RSIAt(j, 14, v[1]),
     bb    |-> BollingerAt(SMAAt(j, 20, 98), StdDevAt(j, 20, 3), 2),
     macd  |-> MACDAt(j, 12, 26, 9, v[2], 0),
     stoch |-> StochasticAt(j, 14, 3, v[3], v[3])] :
      v \in {<<35, 1, 25>>, <<70, -1, 75>>, <<50, 0, 50>>} }

\* the number of conditions of the sequence that hold
Count(conds) == Cardinality({k \in DOMAIN conds : conds[k]})

\* the hard-coded stop and target of the combined strategy
CombinedStopLoss == RatOf(2)
CombinedTakeProfit == RatOf(4)

combinedStrategy ==
  /\ InLoop("combined")
  /\ \E price \in CombinedCloses, x \in CombinedInd(i) :
       LET bar == FlatBar(price, i)
           bullishSignals == Count(<<Gt(price, x.sma20), Lt(x.rsi, 40), Lt(price, x.bb.lower),
                                     Gt(x.macd.macd, x.macd.signal), Lt(x.stoch.k, 30)>>)
           bearishSignals == Count(<<Gt(x.rsi, 65), Gt(price, x.bb.upper),
                                     Lt(x.macd.macd, x.macd.signal), Gt(x.stoch.k, 70)>>)
           bearishExit == bearishSignals >= 3
           stopLossHit == StopLossHit(price, CombinedStopLoss)
           takeProfitHit == TakeProfitHit(price, CombinedTakeProfit)
       IN /\ PositionStep(bar,
                 isNaN(x.sma20) \/ isNaN(x.rsi) \/ isNaN(x.bb.lower),
                 bullishSignals >= 3,
                 "Combined",
                 bearishExit \/ stopLossHit \/ takeProfitHit,
                 ExitReason(bearishExit, "bearish signals triggered",
                            stopLossHit, "Stop Loss", "Take Profit"))
          /\ Advance(bar, x)
  /\ UNCHANGED <<highestPrice, trailingStop>>

-----------------------------------------------------------------------------
(* After the loop: close the open trade at the last bar, then return *)

\* ForceClose that pushes the trade without the assignments that close it
ForceClose_KeepsOpen(t, lastBar) == t

\* ForceClose that closes at the entry price instead of the last close
ForceClose_AtEntryPrice(t, lastBar) == CloseTrade(t, lastBar.date, t.entryPrice, "End of data")

\* the trade pushed by the block `if (currentTrade) { ... }' after the loop
ForceClose(t, lastBar) == CloseTrade(t, lastBar.date, lastBar.close, "End of data")

EndOfData ==
  /\ pc = "scan"
  /\ i >= n
  /\ pc' = "done"
  /\ IF currentTrade # null
       THEN /\ currentTrade' = ForceClose(currentTrade, data[n - 1])
            /\ trades' = Append(trades, currentTrade')
       ELSE UNCHANGED <<currentTrade, trades>>
  /\ UNCHANGED <<strategy, params, n, i, data, ind, signals, tradeId, highestPrice, trailingStop,
                 backtestVars, optimizeVars>>

-----------------------------------------------------------------------------
(* runStrategy(type, data, params) *)

\* the lengths of the bar series a run is started with
DataLengths(s, p) ==
  {0, 1, StartIndex(s, p) - 1} \cup {StartIndex(s, p) + j : j \in 0..MaxBars}

\* the indicator values at the index before the loop start; params is already set
PriorInd(s, j) ==
  CASE s = "momentum"      -> {x \in MomentumInd(j) : x.sma200 = 97}
    [] s = "rsi"           -> {x \in RsiInd(j) : x.rsi # 80}
    [] s = "ema-crossover" -> EmaInd(j)
    [] s = "stochastic"    -> {x \in StochasticInd(j) : x.stoch.k < 80}
    [] s = "atr-trailing"  -> {[sma20 |-> SMAAt(j, 20, 97), atr |-> RatOf(1)]}
    [] OTHER               -> {NoParams}

PriorCloses(s) == IF s = "breakout" THEN Closes ELSE {100}

\* runStrategy(s, data, p) entering the loop of its strategy function on len bars
\* a call of runStrategy or runBacktest that is not made by optimizeStrategy
NoOptimizer ==
  /\ paramRanges = <<>>
  /\ metricToOptimize = "sharpeRatio"
  /\ combinations = <<>>
  /\ combo = 0
  /\ results = <<>>
  /\ optimum = null
  /\ strategies = <<>>

RunOf(s, p, len) ==
  LET start == StartIndex(s, p)
      prior == IF len < start THEN {} ELSE (start - PriorBars(s, p))..(start - 1)
  IN /\ strategy = s
     /\ params = p
     /\ n = len
     /\ pc = "scan"
     /\ i = start
     /\ \E c \in [prior -> PriorCloses(s)] : data = [j \in prior |-> FlatBar(c[j], j)]
     /\ \E x \in [prior -> PriorInd(s, start - 1)] : ind = x
     /\ currentTrade = null
     /\ trades = <<>>
     /\ signals = <<>>
     /\ tradeId = 0
     /\ highestPrice = 0
     /\ trailingStop = RatOf(0)

StartRun ==
  \E s \in StrategyTypes :
    \E p \in ParamSets(s) :
      \E len \in DataLengths(s, p) : RunOf(s, p, len)

\* the state in which generateEquityCurve enters its loop under config c
CurveStart(c) ==
  /\ config = c
  /\ candle = 0
  /\ equity = RatOf(c.initialCapital)
  /\ peakEquity = RatOf(c.initialCapital)
  /\ openTrade = null
  /\ openTradeEntryValue = 0
  /\ equityCurve = <<>>
  /\ metrics = null

\* initialCapital, commission and slippage of a backtest
BaseConfig == [initialCapital |-> 1000, commission |-> Rat(1, 100), slippage |-> Rat(1, 50)]

Init == StartRun /\ CurveStart(BaseConfig) /\ NoOptimizer

Next ==
  \/ meanReversionStrategy
  \/ momentumStrategy
  \/ vwapBounceStrategy
  \/ rsiStrategy
  \/ breakoutStrategy
  \/ emaCrossoverStrategy
  \/ stochasticStrategy
  \/ atrTrailingStopStrategy
  \/ combinedStrategy
  \/ EndOfData

Spec == Init /\ [][Next]_vars

-----------------------------------------------------------------------------
(* generateEquityCurve(data, trades, config): one iteration of              *)
(* `for (const candle of data)' per step.  Money is an exact rational.     *)

\* the bar at index j; a bar the strategy loop did not read is flat at 100
BarAt(j) == IF j \in DOMAIN data THEN data[j] ELSE FlatBar(100, j)

\* the first trade that is held at time, entered then or earlier
EnteringTrade_Held(time) ==
  LET m == {j \in DOMAIN trades :
              /\ trades[j].entryDate <= time
              /\ "exitDate" \in DOMAIN trades[j] => time <= trades[j].exitDate}
  IN IF m = {} THEN null ELSE trades[CHOOSE j \in m : \A x \in m : j <= x]

\* trades.find(t => t.entryDate.getTime() === time)
EnteringTrade(time) ==
  LET m == {j \in DOMAIN trades : trades[j].entryDate = time}
  IN IF m = {} THEN null ELSE trades[CHOOSE j \in m : \A x \in m : j <= x]

\* tradesByDate.get(time) || []
ExitingTrades(time) ==
  SelectSeq(trades, LAMBDA t : "exitDate" \in DOMAIN t /\ t.exitDate = time)

\* enteringTrade.entryPrice * enteringTrade.size * config.commission
EntryCommission(trade) ==
  RatMul(RatOf(trade.entryPrice * trade.size), config.commission)

\* trade.pnl - slippageAmount - commission
AdjustedPnL(trade) ==
  LET slippageAmount == RatMul(RatOf(trade.exitPrice * trade.size), config.slippage)
      commission == RatMul(RatOf(trade.exitPrice * trade.size), config.commission)
  IN RatSub(RatSub(RatOf(trade.pnl), slippageAmount), commission)

\* unrealizedPnL of the iteration
UnrealizedPnL(open, entryValue, close) ==
  IF open # null /\ open.status = "OPEN"
    THEN close * open.size - entryValue
    ELSE 0

\* peakEquity > 0 ? ((peakEquity - currentEquity) / peakEquity) * 100 : 0
Drawdown(peak, currentEquity) ==
  IF RatLt(RatOf(0), peak)
    THEN RatMul(RatDiv(RatSub(peak, currentEquity), peak), RatOf(100))
    ELSE RatOf(0)

\* ((candle.close - firstPrice) / firstPrice) * 100 with firstPrice = data[0]?.close || 1
Benchmark(close) ==
  LET firstPrice == IF BarAt(0).close = 0 THEN 1 ELSE BarAt(0).close
  IN Rat((close - firstPrice) * 100, firstPrice)

RECURSIVE ApplyExits(_, _)
RECURSIVE ApplyExits_PeakKept(_, _)

\* the loop over exitingTrades without the update of peakEquity
ApplyExits_PeakKept(st, exits) ==
  IF exits = <<>>
    THEN st
    ELSE LET trade == Head(exits)
             eq == RatAdd(st.equity, AdjustedPnL(trade))
             closes == st.openTrade # null /\ st.openTrade.id = trade.id
             after == IF "pnl" \in DOMAIN trade
                        THEN [equity |-> eq,
                              peakEquity |-> st.peakEquity,
                              openTrade |-> IF closes THEN null ELSE st.openTrade,
                              openTradeEntryValue |-> IF closes THEN 0 ELSE st.openTradeEntryValue]
                        ELSE st
         IN ApplyExits_PeakKept(after, Tail(exits))

\* the loop over exitingTrades
ApplyExits(st, exits) ==
  IF exits = <<>>
    THEN st
    ELSE LET trade == Head(exits)
             eq == RatAdd(st.equity, AdjustedPnL(trade))
             closes == st.openTrade # null /\ st.openTrade.id = trade.id
             after == IF "pnl" \in DOMAIN trade
                        THEN [equity |-> eq,
                              peakEquity |-> IF RatLt(st.peakEquity, eq) THEN eq ELSE st.peakEquity,
                              openTrade |-> IF closes THEN null ELSE st.openTrade,
                              openTradeEntryValue |-> IF closes THEN 0 ELSE st.openTradeEntryValue]
                        ELSE st
         IN ApplyExits(after, Tail(exits))

\* the point reporting the profit so far in place of the equity
EquityPoint_Profit(bar, currentEquity, currentDrawdown) ==
  [date |-> bar.date, equity |-> RatSub(currentEquity, RatOf(config.initialCapital)),
   drawdown |-> currentDrawdown, benchmark |-> Benchmark(bar.close)]

\* equityCurve.push({ date, equity: currentEquity, drawdown: currentDrawdown, benchmark })
EquityPoint(bar, currentEquity, currentDrawdown) ==
  [date |-> bar.date, equity |-> currentEquity,
   drawdown |-> currentDrawdown, benchmark |-> Benchmark(bar.close)]

\* the body of the loop for one candle: the loop variables after it and the point pushed
CurveStep(st, bar) ==
  LET time == bar.date
      enteringTrade == EnteringTrade(time)
      entered == IF enteringTrade # null
                   THEN [equity |-> RatSub(st.equity, EntryCommission(enteringTrade)),
                         peakEquity |-> st.peakEquity,
                         openTrade |-> enteringTrade,
                         openTradeEntryValue |-> enteringTrade.entryPrice * enteringTrade.size]
                   ELSE st
      unrealizedPnL == UnrealizedPnL(entered.openTrade, entered.openTradeEntryValue, bar.close)
      after == ApplyExits(entered, ExitingTrades(time))
      currentEquity == RatAdd(after.equity, RatOf(unrealizedPnL))
  IN [st |-> after,
      point |-> EquityPoint(bar, currentEquity, Drawdown(after.peakEquity, currentEquity))]

\* the loop variables as one record
CurveState ==
  [equity |-> equity, peakEquity |-> peakEquity,
   openTrade |-> openTrade, openTradeEntryValue |-> openTradeEntryValue]

RECURSIVE CurveRun(_, _, _, _)

\* the loop pushing no point for a candle that repeats the timestamp before it
CurveRun_Dedup(st, curve, j, hi) ==
  IF j >= hi
    THEN [st |-> st, curve |-> curve]
    ELSE LET r == CurveStep(st, BarAt(j))
         IN CurveRun(r.st,
                     IF j > 0 /\ BarAt(j).date = BarAt(j - 1).date
                       THEN curve ELSE Append(curve, r.point),
                     j + 1, hi)

\* the loop running its body once per timestamp: a candle that repeats the timestamp
\* before it neither charges nor credits a trade again
CurveRun_OncePerTimestamp(st, curve, j, hi) ==
  IF j >= hi
    THEN [st |-> st, curve |-> curve]
    ELSE LET r == CurveStep(st, BarAt(j))
             repeated == j > 0 /\ BarAt(j).date = BarAt(j - 1).date
         IN CurveRun(IF repeated THEN st ELSE r.st, Append(curve, r.point), j + 1, hi)

\* the iterations for the candles at indices j .. hi - 1
CurveRun(st, curve, j, hi) ==
  IF j >= hi
    THEN [st |-> st, curve |-> curve]
    ELSE LET r == CurveStep(st, BarAt(j))
         IN CurveRun(r.st, Append(curve, r.point), j + 1, hi)

\* the first index whose bar the strategy loop has read (n when it read none)
FirstRead == IF DOMAIN data = {} THEN n ELSE CHOOSE j \in DOMAIN data : \A x \in DOMAIN data : j <= x

CurveAssign(r) ==
  /\ equity' = r.st.equity
  /\ peakEquity' = r.st.peakEquity
  /\ openTrade' = r.st.openTrade
  /\ openTradeEntryValue' = r.st.openTradeEntryValue
  /\ equityCurve' = r.curve
  /\ UNCHANGED <<strategy, params, n, pc, i, data, ind, currentTrade, trades, signals,
                 tradeId, highestPrice, trailingStop, config, metrics, optimizeVars>>

\* the iterations over the candles that precede every bar the strategy loop read:
\* no trade enters or exits on them, so each pushes its point and changes no loop variable
CurveOverUnreadBars ==
  /\ pc = "done"
  /\ candle = 0
  /\ FirstRead > 0
  /\ \A t \in DOMAIN trades : trades[t].entryDate >= FirstRead /\ trades[t].exitDate >= FirstRead
  /\ candle' = FirstRead
  /\ LET currentDrawdown == Drawdown(peakEquity, equity)
     IN CurveAssign([st |-> CurveState,
                     curve |-> [j \in 1..FirstRead |->
                                  EquityPoint(BarAt(j - 1), equity, currentDrawdown)]])

\* one iteration of the loop
generateEquityCurve ==
  /\ pc = "done"
  /\ candle < n
  /\ candle \in DOMAIN data
  /\ candle' = candle + 1
  /\ \E r \in {CurveRun(CurveState, equityCurve, candle, candle + 1)} : CurveAssign(r)

\* return equityCurve
CurveReturn ==
  /\ pc = "done"
  /\ candle >= n
  /\ pc' = "metrics"
  /\ UNCHANGED <<strategy, params, n, i, data, ind, currentTrade, trades, signals,
                 tradeId, highestPrice, trailingStop, backtestVars, optimizeVars>>

-----------------------------------------------------------------------------
(* calculateMetrics(trades, equityCurve, config).  Every field of the      *)
(* record is a number as above.  Timestamps count days.  The fields built  *)
(* from the daily returns with Math.sqrt or Math.pow are kept as the       *)
(* expression the code evaluates (its operands in a record tagged fn) and  *)
(* are evaluated by the operators after it.                                *)

MetricFields ==
  {"totalReturn", "annualizedReturn", "cagr", "sharpeRatio", "sortinoRatio", "maxDrawdown",
   "maxDrawdownDuration", "calmarRatio", "volatility", "winRate", "profitFactor",
   "expectancy", "totalTrades", "winningTrades", "losingTrades", "avgTradeReturn",
   "avgWinningTrade", "avgLosingTrade", "largestWin", "largestLoss", "avgTradeDuration",
   "grossProfit", "grossLoss", "netProfit", "commissionPaid"}

\* the empty record with the profit factor of a run without losses
getEmptyMetrics_NoLoss == [f \in MetricFields |-> IF f = "profitFactor" THEN Infinity ELSE RatOf(0)]

\* every field 0
getEmptyMetrics == [f \in MetricFields |-> RatOf(0)]

\* t.pnl || 0 and t.pnlPercent || 0
PnlOf(t) == IF "pnl" \in DOMAIN t THEN t.pnl ELSE 0
PnlPercentOf(t) == IF "pnlPercent" \in DOMAIN t THEN t.pnlPercent ELSE RatOf(0)

RECURSIVE SumPnl(_)

\* a reduce that drops the accumulator: the pnl of the last trade alone
SumPnl_LastOnly(ts) == IF ts = <<>> THEN 0 ELSE PnlOf(ts[Len(ts)])

\* the sum of the pnl over a list of trades, by reduce from 0
SumPnl(ts) == IF ts = <<>> THEN 0 ELSE SumPnl(SubSeq(ts, 1, Len(ts) - 1)) + PnlOf(ts[Len(ts)])

PnlPercents(ts) == [j \in DOMAIN ts |-> PnlPercentOf(ts[j])]

\* grossLoss > 0 with the ratio replaced by 0
ProfitFactor_ZeroWhenNoLoss(grossProfit, grossLoss) ==
  IF grossLoss > 0 THEN Rat(grossProfit, grossLoss) ELSE RatOf(0)

\* grossLoss > 0 ? grossProfit / grossLoss : grossProfit > 0 ? Infinity : 0
ProfitFactor(grossProfit, grossLoss) ==
  IF grossLoss > 0 THEN Rat(grossProfit, grossLoss)
  ELSE IF grossProfit > 0 THEN Infinity ELSE RatOf(0)

\* the daily returns of the curve
DailyReturns(curve) ==
  [j \in 1..(Len(curve) - 1) |->
     XDiv(XSub(curve[j + 1].equity, curve[j].equity), curve[j].equity)]

\* one iteration of the loop "Max Drawdown and Duration", for the point at index j - 1
DrawdownStep(st, curve, j) ==
  LET e == curve[j].equity
      drawdown == XDiv(XSub(st.peakEquity, e), st.peakEquity)
      duration == (j - 1) - st.drawdownStart
  IN IF XGt(e, st.peakEquity)
       THEN [st EXCEPT !.peakEquity = e, !.currentDrawdownDuration = 0, !.drawdownStart = j - 1]
       ELSE IF XGt(drawdown, st.maxDrawdown)
              THEN [st EXCEPT !.currentDrawdownDuration = duration,
                              !.maxDrawdown = drawdown,
                              !.maxDrawdownDuration = duration]
              ELSE [st EXCEPT !.currentDrawdownDuration = duration]

\* the loop variables after the first j points
RECURSIVE DrawdownScan(_, _, _)
DrawdownScan(st, curve, j) ==
  IF j = 0
    THEN st
    ELSE CHOOSE r \in {DrawdownStep(before, curve, j) :
                         before \in {DrawdownScan(st, curve, j - 1)}} : TRUE

\* the largest and the smallest pnl of a non-empty list
MaxPnl(ts) == CHOOSE x \in {PnlOf(ts[j]) : j \in DOMAIN ts} : \A j \in DOMAIN ts : PnlOf(ts[j]) <= x
MinPnl(ts) == CHOOSE x \in {PnlOf(ts[j]) : j \in DOMAIN ts} : \A j \in DOMAIN ts : x <= PnlOf(ts[j])

\* the sum of the trade durations in hours
RECURSIVE SumHours(_)
SumHours(ts) ==
  IF ts = <<>> THEN 0
  ELSE LET t == ts[Len(ts)]
       IN SumHours(SubSeq(ts, 1, Len(ts) - 1)) +
          (IF "exitDate" \in DOMAIN t THEN (t.exitDate - t.entryDate) * 24 ELSE 0)

calculateMetrics(ts, curve, cfg) ==
  LET initialCapital == cfg.initialCapital
      closedTrades == SelectSeq(ts, LAMBDA t : t.status = "CLOSED")
      winningTrades == SelectSeq(closedTrades, LAMBDA t : PnlOf(t) > 0)
      losingTrades == SelectSeq(closedTrades, LAMBDA t : PnlOf(t) <= 0)
      count == RatOf(Len(closedTrades))
      grossProfit == SumPnl(winningTrades)
      grossLoss == Abs(SumPnl(losingTrades))
      netProfit == grossProfit - grossLoss
      commissionPaid == XMul(XMul(RatOf(Len(closedTrades) * initialCapital), cfg.commission),
                             RatOf(2))
      totalReturn == XMul(XDiv(RatOf(netProfit), RatOf(initialCapital)), RatOf(100))
      daysInMarket == cfg.endDate - cfg.startDate
      yearsInMarket == Rat(daysInMarket * 4, 1461)
      annualizedReturn ==
        IF yearsInMarket.n > 0
          THEN [fn |-> "annualizedReturn", totalReturn |-> totalReturn,
                yearsInMarket |-> yearsInMarket]
          ELSE totalReturn
      dailyReturns == DailyReturns(curve)
      scan == DrawdownScan([maxDrawdown |-> RatOf(0), maxDrawdownDuration |-> 0,
                            currentDrawdownDuration |-> 0,
                            peakEquity |-> RatOf(initialCapital), drawdownStart |-> 0],
                           curve, Len(curve))
      maxDrawdown == XMul(scan.maxDrawdown, RatOf(100))
      calmarRatio ==
        IF XGt(maxDrawdown, RatOf(0)) /\ "fn" \in DOMAIN annualizedReturn
          THEN [fn |-> "calmarRatio", annualizedReturn |-> annualizedReturn,
                maxDrawdown |-> maxDrawdown]
          ELSE IF XGt(maxDrawdown, RatOf(0))
                 THEN XDiv(annualizedReturn, maxDrawdown)
                 ELSE annualizedReturn
      avgWin == IF Len(winningTrades) > 0
                  THEN XDiv(XSum(PnlPercents(winningTrades)), RatOf(Len(winningTrades)))
                  ELSE RatOf(0)
      avgLoss == IF Len(losingTrades) > 0
                   THEN XDiv(XAbs(XSum(PnlPercents(losingTrades))), RatOf(Len(losingTrades)))
                   ELSE RatOf(0)
      winProb == XDiv(RatOf(Len(winningTrades)), count)
      lossProb == XDiv(RatOf(Len(losingTrades)), count)
  IN IF Len(ts) = 0 \/ Len(closedTrades) = 0
       THEN getEmptyMetrics
       ELSE [totalReturn |-> totalReturn,
             annualizedReturn |-> annualizedReturn,
             cagr |-> annualizedReturn,
             sharpeRatio |-> [fn |-> "sharpeRatio", dailyReturns |-> dailyReturns],
             sortinoRatio |-> [fn |-> "sortinoRatio", dailyReturns |-> dailyReturns],
             maxDrawdown |-> maxDrawdown,
             maxDrawdownDuration |-> RatOf(scan.maxDrawdownDuration),
             calmarRatio |-> calmarRatio,
             volatility |-> [fn |-> "volatility", dailyReturns |-> dailyReturns],
             winRate |-> XMul(winProb, RatOf(100)),
             profitFactor |-> ProfitFactor(grossProfit, grossLoss),
             expectancy |-> XSub(XMul(winProb, avgWin), XMul(lossProb, avgLoss)),
             totalTrades |-> count,
             winningTrades |-> RatOf(Len(winningTrades)),
             losingTrades |-> RatOf(Len(losingTrades)),
             avgTradeReturn |-> XDiv(XSum(PnlPercents(closedTrades)), count),
             avgWinningTrade |-> avgWin,
             avgLosingTrade |-> IF Len(losingTrades) > 0 THEN XNeg(avgLoss) ELSE RatOf(0),
             largestWin |-> IF Len(winningTrades) > 0 THEN RatOf(MaxPnl(winningTrades)) ELSE RatOf(0),
             largestLoss |-> IF Len(losingTrades) > 0 THEN RatOf(MinPnl(losingTrades)) ELSE RatOf(0),
             avgTradeDuration |-> XDiv(RatOf(SumHours(closedTrades)), count),
             grossProfit |-> RatOf(grossProfit),
             grossLoss |-> RatOf(grossLoss),
             netProfit |-> RatOf(netProfit),
             commissionPaid |-> commissionPaid]

\* the values of the expressions over the daily returns, as surds
MeanReturn(rs) == XDiv(XSum(rs), RatOf(Len(rs)))

Variance(rs) ==
  LET meanReturn == MeanReturn(rs)
      sq(r) == XMul(XSub(r, meanReturn), XSub(r, meanReturn))
  IN XDiv(XSum([j \in DOMAIN rs |-> sq(rs[j])]), RatOf(Len(rs)))

DailyVolatility(rs) == Sqrt(Variance(rs))

DownsideDeviation(rs) ==
  LET downsideReturns == SelectSeq(rs, LAMBDA r : XLt(r, RatOf(0)))
  IN IF Len(downsideReturns) > 0
       THEN Sqrt(XDiv(XSum([j \in DOMAIN downsideReturns |->
                              XMul(downsideReturns[j], downsideReturns[j])]),
                      RatOf(Len(downsideReturns))))
       ELSE Surd(RatOf(0), RatOf(1))

\* (x / s) * Math.sqrt(252) for a surd s = c * sqrt(q): x / (c * q) * sqrt(q * 252)
Annualized(x, s) == Surd(XDiv(x, XMul(s.c, s.q)), RatMul(s.q, RatOf(252)))

\* the surd a field stands for, for the fields built with Math.sqrt
Value(v) ==
  IF "fn" \notin DOMAIN v THEN Surd(v, RatOf(1))
  ELSE LET rs == v.dailyReturns
           dailyVolatility == DailyVolatility(rs)
           downsideDeviation == DownsideDeviation(rs)
       IN CASE v.fn = "volatility" ->
                 Surd(XMul(dailyVolatility.c, RatOf(100)), RatMul(dailyVolatility.q, RatOf(252)))
            [] v.fn = "sharpeRatio" ->
                 IF XGt(dailyVolatility.c, RatOf(0))
                   THEN Annualized(MeanReturn(rs), dailyVolatility)
                   ELSE Surd(RatOf(0), RatOf(1))
            [] v.fn = "sortinoRatio" ->
                 IF XGt(downsideDeviation.c, RatOf(0))
                   THEN Annualized(MeanReturn(rs), downsideDeviation)
                   ELSE Surd(RatOf(0), RatOf(1))

\* NaN, Infinity, -Infinity or finite
ClassOf(x) ==
  IF XIsNaN(x) THEN "NaN"
  ELSE IF x.d # 0 THEN "finite"
  ELSE IF x.n > 0 THEN "Infinity" ELSE "-Infinity"

\* (Math.pow(1 + totalReturn / 100, 1 / yearsInMarket) - 1) * 100: the exponent is
\* positive and, for a whole number of days, never an integer
AnnualizedReturnClass(v) ==
  LET base == XAdd(RatOf(1), XDiv(v.totalReturn, RatOf(100)))
  IN IF XIsNaN(base) \/ (base.d # 0 /\ base.n < 0) THEN "NaN"
     ELSE IF base.d = 0 THEN "Infinity"
     ELSE "finite"

\* what kind of number a field of the metrics record is
Class(v) ==
  IF "fn" \notin DOMAIN v THEN ClassOf(v)
  ELSE CASE v.fn = "annualizedReturn" -> AnnualizedReturnClass(v)
         [] v.fn = "calmarRatio" ->
              LET a == AnnualizedReturnClass(v.annualizedReturn)
              IN IF v.maxDrawdown.d # 0 THEN a
                 ELSE IF a = "finite" THEN "finite" ELSE "NaN"
         [] OTHER -> ClassOf(Value(v).c)

\* some division of calculateMetrics has a zero denominator: by initialCapital, by the
\* equity of the point before, or by the number of daily returns
ZeroDenominator(curve, cfg) ==
  \/ cfg.initialCapital = 0
  \/ \E j \in 1..(Len(curve) - 1) : curve[j].equity = RatOf(0)
  \/ Len(DailyReturns(curve)) = 0

\* const metrics = calculateMetrics(trades, equityCurve, config)
MetricsStep ==
  /\ pc = "metrics"
  /\ metrics' = calculateMetrics(trades, equityCurve, config)
  /\ pc' = "returned"
  /\ UNCHANGED <<strategy, params, n, i, data, ind, currentTrade, trades, signals,
                 tradeId, highestPrice, trailingStop, config, curveVars, optimizeVars>>

-----------------------------------------------------------------------------
(* calculateMetrics called on any trade list, equity curve and config *)

\* equity values of the points of a curve
CurveEquities == {0, 50, 100, 200}

\* closed trades entered at 100 on day 0, and one trade still open
MetricsTrades ==
  {CloseTrade(OpenTrade(0, 0, 100), e, x, "Stop Loss") : e \in {0, 1}, x \in {90, 100, 110, 120}}
    \cup {OpenTrade(0, 0, 100)}

MetricsTradeLists ==
  {<<>>} \cup {<<t>> : t \in MetricsTrades} \cup {<<t, u>> : t \in MetricsTrades, u \in MetricsTrades}

\* configs whose endDate is at, one year after and before startDate
MetricsConfigs ==
  {BaseConfig @@ [startDate |-> 1, endDate |-> e] : e \in {0, 1, 366}}

InitMetrics ==
  /\ strategy = "mean-reversion"
  /\ params = NoParams
  /\ n \in 0..MaxCurveBars
  /\ pc = "metrics"
  /\ i = n
  /\ data = [j \in {} |-> NoParams]
  /\ ind = [j \in {} |-> NoParams]
  /\ currentTrade = null
  /\ trades \in MetricsTradeLists
  /\ signals = <<>>
  /\ tradeId = 0
  /\ highestPrice = 0
  /\ trailingStop = RatOf(0)
  /\ config \in MetricsConfigs
  /\ candle = n
  /\ equity = RatOf(config.initialCapital)
  /\ peakEquity = RatOf(config.initialCapital)
  /\ openTrade = null
  /\ openTradeEntryValue = 0
  /\ \E e \in [1..n -> CurveEquities] :
       equityCurve = [j \in 1..n |-> [date |-> j - 1, equity |-> RatOf(e[j]),
                                       drawdown |-> RatOf(0), benchmark |-> RatOf(0)]]
  /\ metrics = null
  /\ NoOptimizer

NextMetrics == MetricsStep

SpecMetrics == InitMetrics /\ [][NextMetrics]_vars

-----------------------------------------------------------------------------
(* generateEquityCurve called on any bar series and any trade list *)

\* timestamps of bars and trades; bars may repeat a timestamp
CurveDates == 0..2

CurveCloses == {90, 110}

\* trades still open, entered at 100
OpenTrades == {OpenTrade(0, d, 100) : d \in CurveDates}

\* closed trades entered at 100
ClosedTrades ==
  {CloseTrade(OpenTrade(0, d, 100), e, x, "Stop Loss") :
     d \in CurveDates, e \in CurveDates, x \in CurveCloses}

\* trade lists of at most two trades, a trade's id being its position
TradeLists ==
  LET T == OpenTrades \cup {t \in ClosedTrades : t.entryDate <= t.exitDate}
      WithId(t, id) == [t EXCEPT !.id = id]
  IN {<<>>} \cup {<<t>> : t \in T} \cup {<<t, WithId(u, 1)>> : t \in T, u \in T}

InitEquity ==
  /\ strategy = "mean-reversion"
  /\ params = NoParams
  /\ n \in 0..MaxCurveBars
  /\ pc = "done"
  /\ i = n
  /\ \E d \in [0..(n - 1) -> CurveDates], c \in [0..(n - 1) -> CurveCloses] :
       /\ \A j \in 1..(n - 1) : d[j - 1] <= d[j]
       /\ data = [j \in 0..(n - 1) |-> FlatBar(c[j], d[j])]
  /\ ind = [j \in {} |-> NoParams]
  /\ currentTrade = null
  /\ trades \in TradeLists
  /\ signals = <<>>
  /\ tradeId = 0
  /\ highestPrice = 0
  /\ trailingStop = RatOf(0)
  /\ CurveStart(BaseConfig)
  /\ NoOptimizer

NextEquity ==
  \/ generateEquityCurve
  \/ CurveReturn

SpecEquity == InitEquity /\ [][NextEquity]_vars

-----------------------------------------------------------------------------
(* runBacktest(data, strategyType, params, initialCapital, commission,     *)
(* slippage): runStrategy, then generateEquityCurve on the same bars and   *)
(* the trades returned.                                                    *)

Configs ==
  {BaseConfig, [initialCapital |-> 500, commission |-> Rat(1, 50), slippage |-> RatOf(0)]}

\* one parameter map per strategy
BacktestParams(s) == IF s = "breakout" THEN [lookbackPeriod |-> 1] ELSE NoParams

\* the strategies backtested on a series on which their loop runs
FullRuns == {"mean-reversion", "breakout"}

\* series too short for the loop to start and, for the strategies of FullRuns,
\* a series with MaxBacktestBars bars from the loop start on
BacktestLengths(s, p) ==
  {0, 1, StartIndex(s, p) - 1} \cup
  (IF s \in FullRuns THEN {StartIndex(s, p) + MaxBacktestBars} ELSE {})

\* startDate: data[0]?.date || new Date(), endDate: data[data.length - 1]?.date || new Date();
\* the two clock readings for an empty series fall on the same day
WithDates(c, len) == c @@ [startDate |-> 0, endDate |-> IF len = 0 THEN 0 ELSE len - 1]

InitBacktest ==
  \E s \in StrategyTypes, c \in Configs :
    \E len \in BacktestLengths(s, BacktestParams(s)) :
      RunOf(s, BacktestParams(s), len) /\ CurveStart(WithDates(c, len)) /\ NoOptimizer

NextBacktest ==
  \/ meanReversionStrategy
  \/ breakoutStrategy
  \/ EndOfData
  \/ CurveOverUnreadBars
  \/ generateEquityCurve
  \/ CurveReturn
  \/ MetricsStep

SpecBacktest == InitBacktest /\ [][NextBacktest]_vars

-----------------------------------------------------------------------------
(* Vocabulary of the properties *)

\* the step is one iteration of the scan loop: bar i was read
BarStep == pc = "scan" /\ i' = i + 1

\* the bar and the indicator values the iteration has read
BarRead == data'[i]
IndRead == ind'[i]

LastTrade == trades[Len(trades)]

ExitFields == {"exitDate", "exitPrice", "pnl", "pnlPercent", "exitReason"}

EntrySignals == {k \in DOMAIN signals : signals[k].type = "BUY"}
ExitSignals == {k \in DOMAIN signals : signals[k].type \in {"SELL", "EXIT"}}

-----------------------------------------------------------------------------
\* C1: every trade of the list that runStrategy returns has status CLOSED and
\* carries exitDate, exitPrice, pnl, pnlPercent and exitReason; no OPEN trade
\* is returned.
C1_ReturnedTradesClosed ==
  pc = "done" =>
    \A k \in DOMAIN trades :
      /\ trades[k].status = "CLOSED"
      /\ ExitFields \subseteq DOMAIN trades[k]

\* a run has returned a trade closed inside the loop and one closed at the end of the data
C1_Witness ==
  /\ pc = "done"
  /\ Len(trades) >= 2
  /\ LastTrade.exitReason = "End of data"
  /\ trades[1].exitReason # "End of data"

\* C2: the signal list holds exactly one BUY signal and exactly one exit signal
\* per returned trade, matching the trade's entryDate and exitDate, also for
\* the trade closed as "End of data".
C2_OneSignalPairPerTrade ==
  pc = "done" =>
    /\ Cardinality(EntrySignals) = Len(trades)
    /\ Cardinality(ExitSignals) = Len(trades)
    /\ \A k \in DOMAIN trades :
         /\ Cardinality({e \in EntrySignals : signals[e].date = trades[k].entryDate}) = 1
         /\ Cardinality({e \in ExitSignals : signals[e].date = trades[k].exitDate}) = 1

\* C3: trades are strictly sequential by bar index: entry(k) < exit(k) <
\* entry(k+1); only a last trade entered on the last bar and closed as
\* "End of data" has exit index = entry index; an open position starts after
\* the exit of the last closed trade.
C3_TradesSequential ==
  /\ \A k \in DOMAIN trades :
       /\ \/ trades[k].entryDate < trades[k].exitDate
          \/ /\ trades[k].entryDate = trades[k].exitDate
             /\ k = Len(trades)
             /\ trades[k].exitReason = "End of data"
             /\ trades[k].entryDate = n - 1
       /\ k < Len(trades) => trades[k].exitDate < trades[k + 1].entryDate
  /\ (pc = "scan" /\ currentTrade # null /\ trades # <<>>) =>
       LastTrade.exitDate < currentTrade.entryDate

\* a run returned trades on consecutive bars, the last one entered and force-closed on the last bar
C3_Witness ==
  /\ pc = "done"
  /\ Len(trades) >= 2
  /\ trades[1].exitDate + 1 = trades[2].entryDate
  /\ LastTrade.entryDate = LastTrade.exitDate

-----------------------------------------------------------------------------
(* The exit predicates of the strategies that test a technical exit, then  *)
(* the stop-loss, then the take-profit.                                    *)

TechnicalFirst == {"momentum", "vwap-bounce", "rsi", "breakout",
                   "ema-crossover", "stochastic", "combined"}

TechnicalExit(s, price, x) ==
  CASE s = "momentum" ->
         Lt(x.macd.macd, x.macd.signal) /\ Ge(ind[i - 1].macd.macd, ind[i - 1].macd.signal)
    [] s = "vwap-bounce" ->
         RatLt(RatAbs(Rat((price - x.vwap) * 100, x.vwap)), Rat(1, 10))
    [] s = "rsi" -> Gt(x.rsi, Param("rsiOverbought", 70))
    [] s = "breakout" -> price < LowestLow(Slice(Param("lookbackPeriod", 20)))
    [] s = "ema-crossover" ->
         Lt(x.fastEMA, x.slowEMA) /\ Ge(ind[i - 1].fastEMA, ind[i - 1].slowEMA)
    [] s = "stochastic" ->
         /\ Lt(x.stoch.k, x.stoch.d) /\ Ge(ind[i - 1].stoch.k, ind[i - 1].stoch.d)
         /\ Gt(x.stoch.k, 80)
    [] s = "combined" ->
         Count(<<Gt(x.rsi, 65), Gt(price, x.bb.upper),
                 Lt(x.macd.macd, x.macd.signal), Gt(x.stoch.k, 70)>>) >= 3

TechnicalReason(s) ==
  CASE s = "momentum" -> "MACD cross down"
    [] s = "vwap-bounce" -> "Price returned to VWAP"
    [] s = "rsi" -> "RSI overbought"
    [] s = "breakout" -> "Breakdown"
    [] s = "ema-crossover" -> "EMA cross down"
    [] s = "stochastic" -> "Stochastic overbought crossover"
    [] s = "combined" -> "bearish signals triggered"

\* the stop and the target each strategy function tests
StopLossOf(s) ==
  CASE s = "combined" -> RatOf(2)
    [] s = "vwap-bounce" -> Param("stopLossPercent", Rat(3, 2))
    [] OTHER -> Param("stopLossPercent", RatOf(2))

TakeProfitOf(s) ==
  CASE s = "combined" -> RatOf(4)
    [] s = "vwap-bounce" -> Param("takeProfitPercent", Rat(5, 2))
    [] s \in {"momentum", "breakout"} -> Param("takeProfitPercent", RatOf(4))
    [] OTHER -> Param("takeProfitPercent", RatOf(3))

PnlOfOpen(price) == pnlPercent(price, currentTrade.entryPrice)

\* C4: for momentum, vwap-bounce, rsi, breakout, ema-crossover, stochastic and
\* combined, an open position is closed on the first bar after its entry bar
\* at which the technical exit, the stop-loss or the take-profit holds, and
\* the exitReason is that of the first of them that holds, in this order.
C4_FirstExitPredicate ==
  [][ (BarStep /\ strategy \in TechnicalFirst /\ currentTrade # null) =>
        LET price == BarRead.close
            tech == TechnicalExit(strategy, price, IndRead)
            sl == RatLe(PnlOfOpen(price), RatNeg(StopLossOf(strategy)))
            tp == RatGe(PnlOfOpen(price), TakeProfitOf(strategy))
        IN IF tech \/ sl \/ tp
             THEN /\ currentTrade' = null
                  /\ Len(trades') = Len(trades) + 1
                  /\ trades'[Len(trades')].exitDate = BarRead.date
                  /\ trades'[Len(trades')].entryDate = currentTrade.entryDate
                  /\ trades'[Len(trades')].exitReason =
                       IF tech THEN TechnicalReason(strategy)
                       ELSE IF sl THEN "Stop Loss" ELSE "Take Profit"
             ELSE /\ currentTrade' = currentTrade
                  /\ trades' = trades ]_vars

\* a momentum trade closed as "MACD cross down" on a bar where the stop-loss held too,
\* after a bar on which no exit predicate held
C4_Witness ==
  /\ strategy = "momentum"
  /\ \E k \in DOMAIN trades :
       /\ trades[k].exitReason = "MACD cross down"
       /\ RatLe(trades[k].pnlPercent, RatNeg(StopLossOf("momentum")))
       /\ trades[k].exitDate > trades[k].entryDate + 1

\* C5: a position is open when the scan has passed the last bar iff exactly
\* one trade with exitReason "End of data" is appended; it is the last trade
\* of the list, its exitPrice is the last bar's close, its exitDate the last
\* bar's timestamp and its pnl is lastClose - entryPrice.
C5_EndOfData ==
  /\ [](\A k \in DOMAIN trades :
          trades[k].exitReason = "End of data" => (k = Len(trades) /\ pc = "done"))
  /\ [][ (pc = "scan" /\ pc' = "done") =>
           IF currentTrade # null
             THEN /\ Len(trades') = Len(trades) + 1
                  /\ SubSeq(trades', 1, Len(trades)) = trades
                  /\ trades'[Len(trades')].exitReason = "End of data"
                  /\ trades'[Len(trades')].exitPrice = data[n - 1].close
                  /\ trades'[Len(trades')].exitDate = data[n - 1].date
                  /\ trades'[Len(trades')].pnl = data[n - 1].close - currentTrade.entryPrice
                  /\ trades'[Len(trades')].entryDate = currentTrade.entryDate
                  /\ trades'[Len(trades')].id = currentTrade.id
             ELSE trades' = trades ]_vars

\* a position entered before the last bar was force-closed at a different price
C5_Witness ==
  /\ pc = "done"
  /\ trades # <<>>
  /\ LastTrade.exitReason = "End of data"
  /\ LastTrade.entryDate < LastTrade.exitDate
  /\ LastTrade.pnl # 0

-----------------------------------------------------------------------------
(* Warm-up periods: the indices at which a series holds the undefined      *)
(* marker, and the indices at which an iteration of a strategy reads one.  *)

SmaUndefined(j, period) == j < period - 1
RsiUndefined(j, period) == j < period
StochKUndefined(j) == j < 14 - 1
StochDUndefined(j) == j < 14 - 1 + 3 - 1

ReadsUndefined(s, j) ==
  CASE s = "mean-reversion" ->
         SmaUndefined(j, Param("lookbackPeriod", 20)) \/ RsiUndefined(j, 14)
    [] s = "momentum" -> SmaUndefined(j, 50) \/ SmaUndefined(j, 200)
    [] s = "vwap-bounce" -> RsiUndefined(j, 14)
    [] s = "rsi" -> RsiUndefined(j - 1, 14) \/ SmaUndefined(j, 50)
    [] s = "stochastic" ->
         StochKUndefined(j - 1) \/ StochDUndefined(j - 1) \/ SmaUndefined(j, 50)
    [] s = "atr-trailing" -> SmaUndefined(j - 1, 20)
    [] s = "combined" ->
         SmaUndefined(j, 20) \/ RsiUndefined(j, 14) \/ StochKUndefined(j)
    [] OTHER -> FALSE

\* C6: no strategy enters or exits on a bar at which an indicator value its
\* predicates read, at the current index or at the prior index of a crossover
\* test, is undefined; such a bar leaves the position, the trade list and the
\* signal list unchanged.
C6_UndefinedBarSkipped ==
  [][ (BarStep /\ ReadsUndefined(strategy, i)) =>
        UNCHANGED <<currentTrade, trades, signals>> ]_vars

\* atr-trailing started inside the warm-up of SMA20: bar 18 holds the undefined
\* marker, bar 19 is above a defined SMA20 whose prior value is undefined, and
\* no position was opened
C6_Witness ==
  /\ strategy = "atr-trailing"
  /\ StartIndex(strategy, params) = 18
  /\ i >= 20
  /\ isNaN(ind[18].sma20)
  /\ Gt(data[19].close, ind[19].sma20)
  /\ signals = <<>>

\* C7: the trailing stop of atr-trailing is ratchet-only: while a position
\* stays open the trailing-stop level never decreases from one bar to the
\* next.
C7_TrailingStopRatchet ==
  [][ (BarStep /\ strategy = "atr-trailing" /\ currentTrade # null /\ currentTrade' = currentTrade) =>
        RatGe(trailingStop', trailingStop) ]_vars

\* C8: every atr-trailing trade was closed because the close fell below the
\* trailing stop or by the "End of data" force-close, whatever
\* stopLossPercent and takeProfitPercent the params hold.
C8_OnlyTrailingStopExit ==
  /\ [](strategy = "atr-trailing" =>
          \A k \in DOMAIN trades :
            trades[k].exitReason \in {"ATR Trailing Stop hit", "End of data"})
  /\ [][ (BarStep /\ strategy = "atr-trailing" /\ trades' # trades) =>
           LET price == BarRead.close
               stop == IF price > highestPrice
                         THEN RatSub(RatOf(price),
                                     RatMul(IndRead.atr, RatOf(Param("atrMultiplier", 3))))
                         ELSE trailingStop
           IN /\ RatLt(RatOf(price), stop)
              /\ trades'[Len(trades')].exitReason = "ATR Trailing Stop hit" ]_vars

\* an atr-trailing run with stopLossPercent in its params holds a position
\* whose loss exceeds that percentage, after a bar that did not close it
C8_Witness ==
  /\ strategy = "atr-trailing"
  /\ pc = "scan"
  /\ currentTrade # null
  /\ "stopLossPercent" \in DOMAIN params
  /\ currentTrade.entryDate < i - 1
  /\ RatLe(PnlOfOpen(data[i - 1].close), RatNeg(params.stopLossPercent))

\* defaultParams of the strategy metadata
strategyInfos(s) ==
  CASE s = "mean-reversion" -> [stopLossPercent |-> RatOf(2), takeProfitPercent |-> RatOf(3)]
    [] s = "momentum"       -> [stopLossPercent |-> RatOf(2), takeProfitPercent |-> RatOf(4)]
    [] s = "vwap-bounce"    -> [stopLossPercent |-> Rat(3, 2), takeProfitPercent |-> Rat(5, 2)]
    [] s = "rsi"            -> [stopLossPercent |-> RatOf(2), takeProfitPercent |-> RatOf(3)]
    [] s = "breakout"       -> [stopLossPercent |-> RatOf(2), takeProfitPercent |-> RatOf(4)]
    [] s = "ema-crossover"  -> [stopLossPercent |-> RatOf(2), takeProfitPercent |-> RatOf(3)]
    [] s = "stochastic"     -> [stopLossPercent |-> RatOf(2), takeProfitPercent |-> RatOf(3)]
    [] s = "combined"       -> [stopLossPercent |-> RatOf(2), takeProfitPercent |-> RatOf(4)]

\* C9: in every strategy other than atr-trailing an open position is closed on
\* any evaluated bar where pnlPercent <= -stopLossPercent or pnlPercent >=
\* takeProfitPercent, the two being the values of the params, or the strategy
\* defaults when absent.
C9_StopAndTargetFromParams ==
  [][ (BarStep /\ strategy # "atr-trailing" /\ currentTrade # null
         /\ ~ReadsUndefined(strategy, i)) =>
        LET price == BarRead.close
            stopLossPercent == Param("stopLossPercent", strategyInfos(strategy).stopLossPercent)
            takeProfitPercent == Param("takeProfitPercent", strategyInfos(strategy).takeProfitPercent)
        IN (RatLe(PnlOfOpen(price), RatNeg(stopLossPercent))
              \/ RatGe(PnlOfOpen(price), takeProfitPercent)) => currentTrade' = null ]_vars

\* C10: breakout opens a position on a bar only if the bar's close exceeds the
\* highest high of the preceding lookbackPeriod bars, and closes on the
\* technical exit only if the close is below the lowest low of those bars.
C10_BreakoutOnClose ==
  [][ (BarStep /\ strategy = "breakout") =>
        LET slice == Slice(Param("lookbackPeriod", 20))
        IN /\ (currentTrade = null /\ currentTrade' # null) =>
                BarRead.close > HighestHigh(slice)
           /\ (trades' # trades /\ trades'[Len(trades')].exitReason = "Breakdown") =>
                BarRead.close < LowestLow(slice) ]_vars

\* C10 (amended): breakout opens a position on a bar only if the bar's high
\* exceeds the highest high of the preceding lookbackPeriod bars, the entry
\* price being the bar's close, and closes on the technical exit only if the
\* close is below the lowest low of those bars.
C10_BreakoutOnHigh ==
  [][ (BarStep /\ strategy = "breakout") =>
        LET slice == Slice(Param("lookbackPeriod", 20))
        IN /\ (currentTrade = null /\ currentTrade' # null) =>
                /\ BarRead.high > HighestHigh(slice)
                /\ currentTrade'.entryPrice = BarRead.close
           /\ (trades' # trades /\ trades'[Len(trades')].exitReason = "Breakdown") =>
                BarRead.close < LowestLow(slice) ]_vars

\* a breakout position opened at a close that does not exceed the preceding
\* high was closed as "Breakdown"
C10_Witness ==
  /\ strategy = "breakout"
  /\ \E k \in DOMAIN trades :
       /\ trades[k].exitReason = "Breakdown"
       /\ trades[k].entryPrice <= data[trades[k].entryDate - 1].high


-----------------------------------------------------------------------------
(* C11: the momentum strategy opens a position only on a bar where MACD    *)
(* crosses above its signal line (above at i, at or below at i - 1) and    *)
(* close > SMA50 > SMA200; hence a run in which SMA50 > SMA200 holds at no *)
(* evaluated index (every series with at most 200 bars included) has no    *)
(* trade and no signal.                                                    *)

MacdCrossUpAt(j) ==
  /\ Gt(ind[j].macd.macd, ind[j].macd.signal)
  /\ Le(ind[j - 1].macd.macd, ind[j - 1].macd.signal)

Sma50AboveSma200At(j) == Gt(ind[j].sma50, ind[j].sma200)

\* the indices the loop has evaluated so far
Evaluated == {j \in DOMAIN ind : j >= StartIndex(strategy, params)}

MomentumOpens ==
  strategy = "momentum" /\ BarStep /\ currentTrade = null /\ currentTrade' # null

C11_MomentumEntry ==
  /\ [][MomentumOpens =>
          /\ Gt(IndRead.macd.macd, IndRead.macd.signal)
          /\ Le(ind[i - 1].macd.macd, ind[i - 1].macd.signal)
          /\ Gt(BarRead.close, IndRead.sma50)
          /\ Gt(IndRead.sma50, IndRead.sma200)]_vars
  /\ [](strategy = "momentum" /\ (\A j \in Evaluated : ~Sma50AboveSma200At(j))
          => trades = <<>> /\ signals = <<>> /\ currentTrade = null)

\* a finished momentum run of 203 bars: a MACD cross-up with the close above
\* SMA50 happened, SMA50 > SMA200 held at no bar, and nothing was traded
C11_Witness ==
  /\ strategy = "momentum" /\ pc = "done" /\ n = 203
  /\ \A j \in Evaluated : ~Sma50AboveSma200At(j)
  /\ \E j \in Evaluated : MacdCrossUpAt(j) /\ Gt(data[j].close, ind[j].sma50)
  /\ \E j \in Evaluated : ind[j].sma50 = ind[j].sma200
  /\ trades = <<>> /\ signals = <<>>


-----------------------------------------------------------------------------
(* C12: generateEquityCurve returns one EquityPoint per input bar, in bar  *)
(* order, each carrying its bar's timestamp, for every bar series (the     *)
(* empty one included) and every trade list.                               *)

C12_OnePointPerBar ==
  /\ Len(equityCurve) = candle
  /\ \A j \in 1..Len(equityCurve) : equityCurve[j].date = BarAt(j - 1).date
  /\ pc = "metrics" => Len(equityCurve) = n

\* the curve returned for three bars of which two share a timestamp, with a
\* trade entering and a trade exiting on that timestamp
C12_Witness ==
  /\ pc = "metrics" /\ n = 3
  /\ \E j \in 1..2 : data[j].date = data[j - 1].date
                      /\ EnteringTrade(data[j].date) # null
                      /\ ExitingTrades(data[j].date) # <<>>

-----------------------------------------------------------------------------
(* C15: every EquityPoint has drawdown >= 0, for any trade list (trades    *)
(* with status OPEN included), initialCapital > 0 and non-negative         *)
(* commission and slippage.                                                *)

C15_DrawdownNonNegative ==
  \A j \in 1..Len(equityCurve) : RatGe(equityCurve[j].drawdown, RatOf(0))


-----------------------------------------------------------------------------
(* C13: in a runBacktest result, at every bar strictly after a trade's     *)
(* entry bar and strictly before its exit bar the EquityPoint's equity is  *)
(* the running cash balance plus the unrealized P&L                        *)
(* (barClose - entryPrice) * size of that trade.                           *)

\* the step is the iteration of generateEquityCurve for the candle at index `candle'
CurveBarStep == pc = "done" /\ candle \in DOMAIN data /\ candle' = candle + 1

\* the trades held over the bar at time: entered before it, exited after it
HeldOver(time) ==
  {j \in DOMAIN trades : trades[j].entryDate < time /\ time < trades[j].exitDate}

C13_UnrealizedInEquity ==
  [][CurveBarStep =>
       \A j \in HeldOver(data[candle].date) :
         equityCurve'[candle + 1].equity =
           RatAdd(equity', RatOf((data[candle].close - trades[j].entryPrice) * trades[j].size))]_vars


-----------------------------------------------------------------------------
(* C14: on bars with strictly increasing timestamps and the trades of a    *)
(* strategy run on them, generateEquityCurve deducts each trade's entry    *)
(* commission entryPrice * size * commission once, on its entry bar, and   *)
(* adds each trade's pnl - exitPrice * size * slippage -                   *)
(* exitPrice * size * commission once, on its exit bar; the last           *)
(* EquityPoint's equity is initialCapital minus the entry commissions plus *)
(* the adjusted PnLs.                                                      *)

RECURSIVE RatSum(_)
RatSum(s) == IF s = <<>> THEN RatOf(0) ELSE RatAdd(Head(s), RatSum(Tail(s)))

\* the entry commissions of the trades entered before bar c
CommissionsBefore(c) ==
  RatSum([j \in DOMAIN trades |->
            IF trades[j].entryDate < c
              THEN RatMul(RatOf(trades[j].entryPrice * trades[j].size), config.commission)
              ELSE RatOf(0)])

\* the adjusted PnLs of the trades exited before bar c
AdjustedPnLsBefore(c) ==
  RatSum([j \in DOMAIN trades |->
            IF trades[j].exitDate < c
              THEN RatSub(RatSub(RatOf(trades[j].pnl),
                                 RatMul(RatOf(trades[j].exitPrice * trades[j].size), config.slippage)),
                          RatMul(RatOf(trades[j].exitPrice * trades[j].size), config.commission))
              ELSE RatOf(0)])

\* the cash balance the accounting of the claim gives after the bars before c
CashBefore(c) ==
  RatAdd(RatSub(RatOf(config.initialCapital), CommissionsBefore(c)), AdjustedPnLsBefore(c))

C14_CommissionAndPnlOnce ==
  /\ equity = CashBefore(candle)
  /\ pc = "metrics" /\ n > 0 => equityCurve[n].equity = CashBefore(n)

\* a finished curve over two trades, the second entered after the first was exited
C14_Witness ==
  /\ pc = "metrics"
  /\ Len(trades) = 2
  /\ trades[1].entryDate < trades[1].exitDate
  /\ trades[1].exitDate < trades[2].entryDate
  /\ config.commission # RatOf(0)
  /\ equityCurve[n].equity # RatOf(config.initialCapital)


-----------------------------------------------------------------------------
(* C16: calculateMetrics returns the all-zero record (every field 0,       *)
(* profitFactor and commissionPaid included) whenever the trade list is    *)
(* empty or has no trade with status CLOSED, whatever the equity curve     *)
(* and the config.                                                         *)

NoClosedTrade == \A j \in DOMAIN trades : trades[j].status # "CLOSED"

C16_EmptyMetrics ==
  pc = "returned" /\ NoClosedTrade =>
    /\ DOMAIN metrics = MetricFields
    /\ \A f \in MetricFields : metrics[f] = RatOf(0)

\* the record returned for two open trades and a curve holding a zero equity
C16_Witness ==
  /\ pc = "returned" /\ NoClosedTrade /\ Len(trades) = 2
  /\ \E j \in DOMAIN equityCurve : equityCurve[j].equity = RatOf(0)
  /\ metrics.commissionPaid = RatOf(0)

-----------------------------------------------------------------------------
(* C17: for a non-empty set of closed trades profitFactor is               *)
(* grossProfit / grossLoss when grossLoss > 0, Infinity when grossLoss = 0 *)
(* and grossProfit > 0, and 0 when both are 0.                             *)

ClosedTrades17 == SelectSeq(trades, LAMBDA t : t.status = "CLOSED")

\* the sum of the positive pnl and minus the sum of the others, over the closed trades
GrossProfit17 == SumPnl(SelectSeq(ClosedTrades17, LAMBDA t : t.pnl > 0))
GrossLoss17 == -SumPnl(SelectSeq(ClosedTrades17, LAMBDA t : t.pnl <= 0))

C17_ProfitFactor ==
  pc = "returned" /\ ClosedTrades17 # <<>> =>
    /\ GrossLoss17 > 0 => metrics.profitFactor = Rat(GrossProfit17, GrossLoss17)
    /\ GrossLoss17 = 0 /\ GrossProfit17 > 0 => metrics.profitFactor = Infinity
    /\ GrossLoss17 = 0 /\ GrossProfit17 = 0 => metrics.profitFactor = RatOf(0)

\* the record returned for winning trades only: profitFactor is Infinity
C17_Witness ==
  /\ pc = "returned" /\ Len(ClosedTrades17) = 2
  /\ GrossLoss17 = 0 /\ GrossProfit17 > 0
  /\ metrics.profitFactor = Infinity


-----------------------------------------------------------------------------
(* C18: for a trade list with at least one CLOSED trade, any equity curve  *)
(* (one with fewer than two points or with a zero equity included) and     *)
(* any config, calculateMetrics evaluates no division with a zero          *)
(* denominator and returns NaN in no field; the only non-finite value it   *)
(* can return is profitFactor = Infinity.                                  *)

C18_NoNaNNoZeroDivision ==
  pc = "returned" /\ ~NoClosedTrade =>
    /\ ~ZeroDenominator(equityCurve, config)
    /\ \A f \in MetricFields :
         /\ Class(metrics[f]) # "NaN"
         /\ Class(metrics[f]) # "finite" => f = "profitFactor" /\ metrics[f] = Infinity


-----------------------------------------------------------------------------
(* C19: for every strategy id, runBacktest on an empty bar series, and on  *)
(* any series shorter than the loop start index of the strategy, returns   *)
(* an empty trade list, an empty signal list, an equity curve with one     *)
(* point per bar whose equity is initialCapital, and the all-zero metrics. *)

-----------------------------------------------------------------------------
(* optimizeStrategy (app/src/utils/backtest.ts): one behaviour of            *)
(* SpecOptimize is one call on a bar series that is the same for every       *)
(* combination.  The strategy is the breakout strategy, whose loop is        *)
(* computed from the bars alone.  paramRanges is the list of its keys, in    *)
(* the order of Object.keys, with the list of values of each.                *)

\* longest bar series handed to optimizeStrategy
MaxOptimizeBars == 4

\* the combinations pushed by generateCombinations(index, current) from the value at
\* position v of its for-of loop on, in the order they are pushed
RECURSIVE generateCombinations(_, _, _, _)
generateCombinations(ranges, index, current, v) ==
  IF index > Len(ranges) THEN <<current>>
  ELSE IF v > Len(ranges[index].values) THEN <<>>
  ELSE generateCombinations(ranges, index + 1,
                            (ranges[index].key :> ranges[index].values[v]) @@ current, 1)
       \o generateCombinations(ranges, index, current, v + 1)

\* { name: 'Optimized', description: 'Auto-optimized parameters', ...combo }
OptimizedParams(c) ==
  c @@ [name |-> "Optimized", description |-> "Auto-optimized parameters"]

\* runBacktest(data, strategyType, params, initialCapital): commission and slippage
\* take their defaults 0.0005 and 0.001
OptimizeConfig(initialCapital) ==
  [initialCapital |-> initialCapital, commission |-> Rat(1, 2000), slippage |-> Rat(1, 1000)]

\* the breakout loop starts at i = lookbackPeriod and runs while i < data.length: a
\* negative start reads data[i] = undefined and data[i].close throws a TypeError
Throws(p) == StartIndex("breakout", p) < 0

\* a number that orders the scores as the scores themselves are ordered: for
\* annualizedReturn and cagr, (Math.pow(1 + t / 100, 1 / years) - 1) * 100 grows with
\* the total return t and is 0 at t = 0, the years being the same for every combination
ScoreOf(v) ==
  IF "fn" \in DOMAIN v
    THEN IF AnnualizedReturnClass(v) = "NaN" THEN XNaN ELSE v.totalReturn
    ELSE v

\* the sign of (a, b) => b.score - a.score as Array.prototype.sort reads it: NaN is +0
CompareScores(a, b) ==
  LET d == XSub(ScoreOf(b.score), ScoreOf(a.score))
  IN IF XIsNaN(d) THEN 0 ELSE Sgn(d.n)

\* the comparator is a consistent comparator for the elements of rs
ConsistentComparator(rs) ==
  \A a \in DOMAIN rs, b \in DOMAIN rs, c \in DOMAIN rs :
    /\ CompareScores(rs[a], rs[b]) = -CompareScores(rs[b], rs[a])
    /\ CompareScores(rs[a], rs[b]) = 0 /\ CompareScores(rs[b], rs[c]) = 0
         => CompareScores(rs[a], rs[c]) = 0
    /\ CompareScores(rs[a], rs[b]) < 0 /\ CompareScores(rs[b], rs[c]) < 0
         => CompareScores(rs[a], rs[c]) < 0

\* results.sort((a, b) => b.score - a.score): the stable sorted order under a consistent
\* comparator, an implementation-defined order of the same elements otherwise
SortByScore(rs) ==
  LET sorted(g) == \A j \in DOMAIN rs, k \in DOMAIN rs :
                     j < k => \/ CompareScores(rs[g[j]], rs[g[k]]) < 0
                              \/ CompareScores(rs[g[j]], rs[g[k]]) = 0 /\ g[j] < g[k]
      orders == IF ConsistentComparator(rs)
                  THEN {g \in Permutations(DOMAIN rs) : sorted(g)}
                  ELSE Permutations(DOMAIN rs)
  IN {[j \in DOMAIN rs |-> rs[g[j]]] : g \in orders}

\* { params: {}, metrics: getEmptyMetrics(), score: 0 }
NeutralResult == [params |-> NoParams, metrics |-> getEmptyMetrics, score |-> RatOf(0)]

\* generateCombinations(0, {})
GenerateCombinations ==
  /\ pc = "combinations"
  /\ combinations' = generateCombinations(paramRanges, 1, NoParams, 1)
  /\ combo' = 1
  /\ pc' = "loop"
  /\ UNCHANGED <<strategy, params, n, i, data, ind, currentTrade, trades, signals, tradeId,
                 highestPrice, trailingStop, backtestVars, strategies, paramRanges, metricToOptimize,
                 results, optimum>>

\* for (const combo of combinations): the call of runBacktest on the combination
TestCombination ==
  /\ pc = "loop"
  /\ combo <= Len(combinations)
  /\ ~Throws(OptimizedParams(combinations[combo]))
  /\ params' = OptimizedParams(combinations[combo])
  /\ i' = StartIndex(strategy, params')
  /\ ind' = [j \in {} |-> NoParams]
  /\ currentTrade' = null
  /\ trades' = <<>>
  /\ signals' = <<>>
  /\ tradeId' = 0
  /\ candle' = 0
  /\ equity' = RatOf(config.initialCapital)
  /\ peakEquity' = RatOf(config.initialCapital)
  /\ openTrade' = null
  /\ openTradeEntryValue' = 0
  /\ equityCurve' = <<>>
  /\ metrics' = null
  /\ pc' = "scan"
  /\ UNCHANGED <<strategy, n, data, highestPrice, trailingStop, config, optimizeVars>>

\* OptimizationError that ends the sweep at the first throw
OptimizationError_Fatal ==
  /\ pc = "loop"
  /\ combo <= Len(combinations)
  /\ Throws(OptimizedParams(combinations[combo]))
  /\ combo' = Len(combinations) + 1
  /\ UNCHANGED <<strategy, params, n, pc, i, data, ind, currentTrade, trades, signals,
                 tradeId, highestPrice, trailingStop, backtestVars, strategies, paramRanges,
                 metricToOptimize, combinations, results, optimum>>

\* catch (error) { console.warn('Optimization error:', error) }
OptimizationError ==
  /\ pc = "loop"
  /\ combo <= Len(combinations)
  /\ Throws(OptimizedParams(combinations[combo]))
  /\ combo' = combo + 1
  /\ UNCHANGED <<strategy, params, n, pc, i, data, ind, currentTrade, trades, signals,
                 tradeId, highestPrice, trailingStop, backtestVars, strategies, paramRanges,
                 metricToOptimize, combinations, results, optimum>>

\* results.push({ params, metrics: result.metrics, score })
PushResult ==
  /\ pc = "returned"
  /\ results' = Append(results, [params |-> params, metrics |-> metrics,
                                 score |-> metrics[metricToOptimize]])
  /\ combo' = combo + 1
  /\ pc' = "loop"
  /\ UNCHANGED <<strategy, params, n, i, data, ind, currentTrade, trades, signals, tradeId,
                 highestPrice, trailingStop, backtestVars, strategies, paramRanges, metricToOptimize,
                 combinations, optimum>>

\* results.sort(...); return results[0] || { params: {}, metrics: getEmptyMetrics(), score: 0 }
SortAndReturn ==
  /\ pc = "loop"
  /\ combo > Len(combinations)
  /\ results' \in SortByScore(results)
  /\ optimum' = IF results' # <<>> THEN results'[1] ELSE NeutralResult
  /\ pc' = "optimized"
  /\ UNCHANGED <<strategy, params, n, i, data, ind, currentTrade, trades, signals, tradeId,
                 highestPrice, trailingStop, backtestVars, strategies, paramRanges, metricToOptimize,
                 combinations, combo>>

\* the paramRanges of the calls
ParamRangeSets ==
  {<<>>,
   <<[key |-> "lookbackPeriod", values |-> <<>>]>>,
   <<[key |-> "lookbackPeriod", values |-> <<1, 2>>]>>,
   <<[key |-> "lookbackPeriod", values |-> <<-1, 1>>]>>,
   <<[key |-> "lookbackPeriod", values |-> <<-1>>]>>,
   <<[key |-> "lookbackPeriod", values |-> <<2, 1>>],
     [key |-> "takeProfitPercent", values |-> <<RatOf(4), RatOf(10)>>]>>}

\* the metricToOptimize of the calls
OptimizedMetrics == {"netProfit", "profitFactor", "cagr"}

\* the initialCapital of the calls
OptimizeCapitals == {5, 50}

InitOptimize ==
  /\ strategy = "breakout"
  /\ params = NoParams
  /\ n \in 0..MaxOptimizeBars
  /\ pc = "combinations"
  /\ i = 0
  /\ \E c \in [0..(n - 1) -> Closes] : data = [j \in 0..(n - 1) |-> FlatBar(c[j], j)]
  /\ ind = [j \in {} |-> NoParams]
  /\ currentTrade = null
  /\ trades = <<>>
  /\ signals = <<>>
  /\ tradeId = 0
  /\ highestPrice = 0
  /\ trailingStop = RatOf(0)
  /\ \E initialCapital \in OptimizeCapitals :
       CurveStart(WithDates(OptimizeConfig(initialCapital), n))
  /\ paramRanges \in ParamRangeSets
  /\ metricToOptimize \in OptimizedMetrics
  /\ combinations = <<>>
  /\ combo = 0
  /\ results = <<>>
  /\ optimum = null
  /\ strategies = <<>>

NextOptimize ==
  \/ GenerateCombinations
  \/ TestCombination
  \/ breakoutStrategy
  \/ EndOfData
  \/ generateEquityCurve
  \/ CurveReturn
  \/ MetricsStep
  \/ OptimizationError
  \/ PushResult
  \/ SortAndReturn

SpecOptimize == InitOptimize /\ [][NextOptimize]_vars

-----------------------------------------------------------------------------
(* C20: optimizeStrategy runs the backtest pipeline exactly once for each  *)
(* element of the Cartesian product of the per-parameter value lists (as   *)
(* many runs as the product of the list lengths, the combinations pairwise *)
(* distinct), and the result it returns is a combination whose score on    *)
(* the chosen metric is greater than or equal to the score of every        *)
(* combination whose run succeeded.                                        *)

RECURSIVE ProductOfLengths(_)
ProductOfLengths(ranges) ==
  IF ranges = <<>> THEN 1
  ELSE Len(ranges[1].values) * ProductOfLengths(Tail(ranges))

\* the maps that give every key one of the values of its list
RECURSIVE CartesianProduct(_)
CartesianProduct(ranges) ==
  IF ranges = <<>> THEN {NoParams}
  ELSE {(ranges[1].key :> ranges[1].values[v]) @@ c :
          v \in DOMAIN ranges[1].values, c \in CartesianProduct(Tail(ranges))}

\* a >= b on scores, false when one of them is NaN
ScoreGe(a, b) ==
  /\ ~XIsNaN(ScoreOf(a)) /\ ~XIsNaN(ScoreOf(b))
  /\ ~XLt(ScoreOf(a), ScoreOf(b))

\* the results hold one record for every combination whose run did not throw
OneRunEach ==
  /\ \A j \in DOMAIN combinations :
       Cardinality({r \in DOMAIN results :
                      results[r].params = OptimizedParams(combinations[j])})
         = IF Throws(OptimizedParams(combinations[j])) THEN 0 ELSE 1
  /\ \A r \in DOMAIN results :
       \E j \in DOMAIN combinations : results[r].params = OptimizedParams(combinations[j])

C20_OneRunPerCombinationBestReturned ==
  pc = "optimized" =>
    /\ Len(combinations) = ProductOfLengths(paramRanges)
    /\ \A j \in DOMAIN combinations, k \in DOMAIN combinations :
         j # k => combinations[j] # combinations[k]
    /\ {combinations[j] : j \in DOMAIN combinations} = CartesianProduct(paramRanges)
    /\ OneRunEach
    /\ results # <<>> =>
         /\ \E r \in DOMAIN results : optimum = results[r]
         /\ \A r \in DOMAIN results : ScoreGe(optimum.score, results[r].score)

-----------------------------------------------------------------------------
(* C21: in optimizeStrategy a combination whose backtest run throws is     *)
(* dropped from the ranking while every other combination is still run and *)
(* ranked; when no combination succeeds (all throw, or a value list is     *)
(* empty) the result is the neutral record with empty params, all-zero     *)
(* metrics and score 0; a throw does not end the sweep: the loop has gone  *)
(* past every combination when optimizeStrategy returns.                   *)

\* the combinations whose run throws
Thrown == {j \in DOMAIN combinations : Throws(OptimizedParams(combinations[j]))}

C21_ThrownCombinationsDropped ==
  pc = "optimized" =>
    /\ combo = Len(combinations) + 1
    /\ Len(results) = Len(combinations) - Cardinality(Thrown)
    /\ \A j \in DOMAIN combinations :
         (j \in Thrown) = ~\E r \in DOMAIN results :
                             results[r].params = OptimizedParams(combinations[j])
    /\ results # <<>> => optimum = results[1]
    /\ results = <<>> =>
         /\ optimum.params = NoParams
         /\ \A f \in MetricFields : optimum.metrics[f] = RatOf(0)
         /\ optimum.score = RatOf(0)

\* a sweep whose first combination threw and whose second was run and returned
C21_Witness ==
  /\ pc = "optimized"
  /\ Thrown # {}
  /\ Len(results) = 1
  /\ optimum.params.lookbackPeriod = 1

-----------------------------------------------------------------------------
(* compareStrategies (app/src/utils/backtest.ts): one behaviour of         *)
(* SpecCompare is one call on a bar series that is the same for every      *)
(* entry.  On the short series of this specification only the breakout     *)
(* loop evaluates bars; the loops of the other strategies do not start.    *)

\* longest bar series handed to compareStrategies
MaxCompareBars == 4

\* a.x < b.x for two surds
SurdLt(a, b) ==
  LET square(s) == XMul(s.c, XMul(s.c, s.q))
  IN /\ ~XIsNaN(a.c) /\ ~XIsNaN(b.c)
     /\ IF Sgn(a.c.n) # Sgn(b.c.n) THEN Sgn(a.c.n) < Sgn(b.c.n)
        ELSE IF a.c.n > 0 THEN XLt(square(a), square(b))
        ELSE XLt(square(b), square(a))

\* the sign of (a, b) => b.metrics.sharpeRatio - a.metrics.sharpeRatio
CompareSharpe(a, b) ==
  LET x == Value(a.metrics.sharpeRatio)
      y == Value(b.metrics.sharpeRatio)
  IN IF SurdLt(x, y) THEN 1 ELSE IF SurdLt(y, x) THEN -1 ELSE 0

\* results.sort((a, b) => b.metrics.sharpeRatio - a.metrics.sharpeRatio): the stable
\* sorted order; the Sharpe ratio is never NaN, so the comparator is consistent
SortBySharpe_Unsorted(rs) == rs

SortBySharpe(rs) ==
  LET sorted(g) == \A j \in DOMAIN rs, k \in DOMAIN rs :
                     j < k => \/ CompareSharpe(rs[g[j]], rs[g[k]]) < 0
                              \/ CompareSharpe(rs[g[j]], rs[g[k]]) = 0 /\ g[j] < g[k]
      g == CHOOSE f \in Permutations(DOMAIN rs) : sorted(f)
  IN [j \in DOMAIN rs |-> rs[g[j]]]

\* CompareRun with a trade id counter shared by the runs instead of `let tradeId = 0'
CompareRun_SharedCounter ==
  /\ pc = "compare"
  /\ combo <= Len(strategies)
  /\ strategy' = strategies[combo].type
  /\ params' = strategies[combo].params
  /\ i' = StartIndex(strategy', params')
  /\ ind' = [j \in {} |-> NoParams]
  /\ currentTrade' = null
  /\ trades' = <<>>
  /\ signals' = <<>>
  /\ candle' = 0
  /\ equity' = RatOf(config.initialCapital)
  /\ peakEquity' = RatOf(config.initialCapital)
  /\ openTrade' = null
  /\ openTradeEntryValue' = 0
  /\ equityCurve' = <<>>
  /\ metrics' = null
  /\ pc' = "scan"
  /\ UNCHANGED <<n, data, tradeId, highestPrice, trailingStop, config, optimizeVars>>

\* for (const { type, name, params } of strategies): the call of runBacktest
CompareRun ==
  /\ pc = "compare"
  /\ combo <= Len(strategies)
  /\ strategy' = strategies[combo].type
  /\ params' = strategies[combo].params
  /\ i' = StartIndex(strategy', params')
  /\ ind' = [j \in {} |-> NoParams]
  /\ currentTrade' = null
  /\ trades' = <<>>
  /\ signals' = <<>>
  /\ tradeId' = 0
  /\ candle' = 0
  /\ equity' = RatOf(config.initialCapital)
  /\ peakEquity' = RatOf(config.initialCapital)
  /\ openTrade' = null
  /\ openTradeEntryValue' = 0
  /\ equityCurve' = <<>>
  /\ metrics' = null
  /\ pc' = "scan"
  /\ UNCHANGED <<n, data, highestPrice, trailingStop, config, optimizeVars>>

\* results.push({ strategy: type, strategyName: name, metrics, trades, executionTime })
ComparePush ==
  /\ pc = "returned"
  /\ results' = Append(results, [strategy |-> strategy,
                                 strategyName |-> strategies[combo].name,
                                 metrics |-> metrics, trades |-> trades])
  /\ combo' = combo + 1
  /\ pc' = "compare"
  /\ UNCHANGED <<strategy, params, n, i, data, ind, currentTrade, trades, signals, tradeId,
                 highestPrice, trailingStop, backtestVars, strategies, paramRanges,
                 metricToOptimize, combinations, optimum>>

\* results.sort(...); return results
CompareSortAndReturn ==
  /\ pc = "compare"
  /\ combo > Len(strategies)
  /\ results' = SortBySharpe(results)
  /\ pc' = "compared"
  /\ UNCHANGED <<strategy, params, n, i, data, ind, currentTrade, trades, signals, tradeId,
                 highestPrice, trailingStop, backtestVars, strategies, paramRanges,
                 metricToOptimize, combinations, combo, optimum>>

\* the entries of the calls
CompareEntries ==
  {[type |-> "breakout", name |-> "Breakout 1", params |-> [lookbackPeriod |-> 1]],
   [type |-> "breakout", name |-> "Breakout 2", params |-> [lookbackPeriod |-> 2]],
   [type |-> "breakout", name |-> "Breakout wide",
    params |-> [lookbackPeriod |-> 1, takeProfitPercent |-> RatOf(10)]],
   [type |-> "rsi", name |-> "RSI", params |-> NoParams]}

\* the lists of entries of the calls, a repeated entry included
StrategyLists ==
  {<<>>} \cup {<<a>> : a \in CompareEntries}
         \cup {<<a, b>> : a \in CompareEntries, b \in CompareEntries}

\* initialCapital, commission and slippage of the calls: small amounts without costs,
\* which keep the exact variance of the daily returns within 32-bit integers
CompareConfigs ==
  {[initialCapital |-> 10, commission |-> RatOf(0), slippage |-> RatOf(0)],
   [initialCapital |-> 25, commission |-> RatOf(0), slippage |-> RatOf(0)]}

InitCompare ==
  /\ strategy = "breakout"
  /\ params = NoParams
  /\ n \in 0..MaxCompareBars
  /\ pc = "compare"
  /\ i = 0
  /\ \E c \in [0..(n - 1) -> Closes] : data = [j \in 0..(n - 1) |-> FlatBar(c[j], j)]
  /\ ind = [j \in {} |-> NoParams]
  /\ currentTrade = null
  /\ trades = <<>>
  /\ signals = <<>>
  /\ tradeId = 0
  /\ highestPrice = 0
  /\ trailingStop = RatOf(0)
  /\ \E c \in CompareConfigs : CurveStart(WithDates(c, n))
  /\ paramRanges = <<>>
  /\ metricToOptimize = "sharpeRatio"
  /\ combinations = <<>>
  /\ combo = 1
  /\ results = <<>>
  /\ optimum = null
  /\ strategies \in StrategyLists

NextCompare ==
  \/ CompareRun
  \/ breakoutStrategy
  \/ EndOfData
  \/ generateEquityCurve
  \/ CurveReturn
  \/ MetricsStep
  \/ ComparePush
  \/ CompareSortAndReturn

SpecCompare == InitCompare /\ [][NextCompare]_vars

-----------------------------------------------------------------------------
(* C22: compareStrategies runs the full pipeline exactly once per supplied *)
(* (strategy, params) entry and returns exactly one comparison per entry,  *)
(* ordered so that sharpeRatio is non-increasing along the returned list.  *)

\* the number of positions of a list that hold x
Occurrences(list, x) == Cardinality({j \in DOMAIN list : list[j] = x})

\* the entry a comparison was made for
EntryOf(r) == [type |-> r.strategy, name |-> r.strategyName]

C22_OneComparisonPerEntrySorted ==
  /\ pc = "compare" => Len(results) = combo - 1
  /\ pc = "compared" =>
       /\ Len(results) = Len(strategies)
       /\ \A e \in DOMAIN strategies :
            LET entry == [type |-> strategies[e].type, name |-> strategies[e].name]
            IN Occurrences([r \in DOMAIN results |-> EntryOf(results[r])], entry)
                 = Occurrences([x \in DOMAIN strategies |->
                                  [type |-> strategies[x].type, name |-> strategies[x].name]],
                               entry)
       /\ \A j \in DOMAIN results, k \in DOMAIN results :
            j < k => ~SurdLt(Value(results[j].metrics.sharpeRatio),
                             Value(results[k].metrics.sharpeRatio))

\* two entries were compared and the one with the higher Sharpe ratio was run second
C22_Witness ==
  /\ pc = "compared"
  /\ Len(results) = 2
  /\ results[1].strategyName = strategies[2].name
  /\ SurdLt(Value(results[2].metrics.sharpeRatio), Value(results[1].metrics.sharpeRatio))

-----------------------------------------------------------------------------
(* C23: trade ids are monotonic and local to one run: in the list a        *)
(* strategy returns the ids are 0, 1, 2, ... in list order, and a later    *)
(* run of the same or another strategy starts again at id 0 and returns    *)
(* the same trades for the same input, whatever ran before it.             *)

\* the ids of a trade list are 0, 1, 2, ... in list order
IdsFromZero(ts) == \A k \in DOMAIN ts : ts[k].id = k - 1

C23_TradeIdsLocalToRun ==
  /\ pc \in {"done", "metrics", "returned"} => IdsFromZero(trades)
  /\ \A r \in DOMAIN results :
       /\ IdsFromZero(results[r].trades)
       /\ \A q \in DOMAIN results :
            /\ results[q].strategy = results[r].strategy
            /\ results[q].strategyName = results[r].strategyName
            => results[q].trades = results[r].trades

\* the same entry was run twice and returned two trades each time
C23_Witness ==
  /\ pc = "compared"
  /\ Len(strategies) = 2 /\ strategies[1] = strategies[2]
  /\ Len(results[1].trades) = 2
  /\ results[2].trades[2].id = 1

-----------------------------------------------------------------------------
(* The indicator functions on whole series (app/src/utils/indicators.ts).  *)
(* A series is a sequence: index i of the code is position i + 1.  The     *)
(* numbers are exact rationals with NaN and the infinities; a standard     *)
(* deviation is a surd.  One behaviour of SpecIndicators is one call of    *)
(* one function on the bars in data with the period in params; pc names    *)
(* the function and ind receives what it returns.                          *)

\* longest series handed to an indicator function
MaxSeriesLen == 4

\* isNaN(x) for a number or a surd
IsUndefined(x) == IF "c" \in DOMAIN x THEN XIsNaN(x.c) ELSE XIsNaN(x)

calculateSMA_Partial(series, period) ==
  [k \in 1..Len(series) |->
     XDiv(XSum(SubSeq(series, IF k < period THEN 1 ELSE k - period + 1, k)), RatOf(period))]

calculateSMA(series, period) ==
  [k \in 1..Len(series) |->
     IF k - 1 < period - 1 THEN XNaN
     ELSE XDiv(XSum(SubSeq(series, k - period + 1, k)), RatOf(period))]

calculateWMA(series, period) ==
  LET denominator == XDiv(RatOf(period * (period + 1)), RatOf(2))
      weighted(k) == [j \in 1..period |-> XMul(series[k - (j - 1)], RatOf(period - (j - 1)))]
  IN [k \in 1..Len(series) |->
        IF k - 1 < period - 1 THEN XNaN ELSE XDiv(XSum(weighted(k)), denominator)]

calculateStdDev(series, period) ==
  [k \in 1..Len(series) |->
     IF k - 1 < period - 1 THEN XNaN
     ELSE LET slice == SubSeq(series, k - period + 1, k)
              mean == XDiv(XSum(slice), RatOf(period))
              variance == XDiv(XSum([j \in 1..period |->
                                       XMul(XSub(slice[j], mean), XSub(slice[j], mean))]),
                               RatOf(period))
          IN Sqrt(variance)]

\* gains and losses: the price changes, one entry per index from 1 on
Gains(series) ==
  [k \in 1..(Len(series) - 1) |->
     LET change == XSub(series[k + 1], series[k])
     IN IF XGt(change, RatOf(0)) THEN change ELSE RatOf(0)]

Losses(series) ==
  [k \in 1..(Len(series) - 1) |->
     LET change == XSub(series[k + 1], series[k])
     IN IF XLt(change, RatOf(0)) THEN XNeg(change) ELSE RatOf(0)]

\* avgGain and avgLoss after the iteration for index i >= period: the initial average
\* at i = period, Wilder's smoothing afterwards
RECURSIVE RSIAverages(_, _, _)
RSIAverages(series, period, idx) ==
  IF idx = period
    THEN [avgGain |-> XDiv(XSum(SubSeq(Gains(series), 1, period)), RatOf(period)),
          avgLoss |-> XDiv(XSum(SubSeq(Losses(series), 1, period)), RatOf(period))]
    ELSE CHOOSE r \in {[avgGain |-> XDiv(XAdd(XMul(prev.avgGain, RatOf(period - 1)),
                                              Gains(series)[idx]), RatOf(period)),
                        avgLoss |-> XDiv(XAdd(XMul(prev.avgLoss, RatOf(period - 1)),
                                              Losses(series)[idx]), RatOf(period))] :
                         prev \in {RSIAverages(series, period, idx - 1)}} : TRUE

\* const rs = avgLoss === 0 ? 100 : avgGain / avgLoss
RelativeStrength(avg) ==
  IF avg.avgLoss = RatOf(0) THEN RatOf(100) ELSE XDiv(avg.avgGain, avg.avgLoss)

\* 100 - (100 / (1 + rs))
RSIValue(rs) == XSub(RatOf(100), XDiv(RatOf(100), XAdd(RatOf(1), rs)))

calculateRSI(series, period) ==
  [k \in 1..Len(series) |->
     IF k - 1 = 0 \/ k - 1 < period THEN XNaN
     ELSE RSIValue(RelativeStrength(RSIAverages(series, period, k - 1)))]

calculateROC(series, period) ==
  [k \in 1..Len(series) |->
     IF k - 1 < period THEN XNaN
     ELSE XMul(XDiv(XSub(series[k], series[k - period]), series[k - period]), RatOf(100))]

\* result[i] of calculateEMA: data[0], then the running mean, then the recurrence
RECURSIVE EMAValue(_, _, _)
EMAValue(series, period, idx) ==
  IF idx = 0 THEN series[1]
  ELSE IF idx < period - 1 THEN XDiv(XSum(SubSeq(series, 1, idx + 1)), RatOf(idx + 1))
  ELSE CHOOSE r \in {XAdd(XMul(XSub(series[idx + 1], prev), Rat(2, period + 1)), prev) :
                       prev \in {EMAValue(series, period, idx - 1)}} : TRUE

calculateEMA(series, period) ==
  [k \in 1..Len(series) |-> EMAValue(series, period, k - 1)]

calculateATR(bars, period) ==
  LET tr == [k \in 1..Len(bars) |->
               IF k = 1 THEN RatOf(bars[k].high - bars[k].low)
               ELSE RatOf(TrueRange(bars[k], bars[k - 1].close))]
  IN [atr |-> calculateEMA(tr, period), tr |-> tr]

calculateADX(bars, period) ==
  LET upMove(k) == bars[k].high - bars[k - 1].high
      downMove(k) == bars[k - 1].low - bars[k].low
      plusDM == [k \in 1..Len(bars) |->
                   IF k > 1 /\ upMove(k) > downMove(k) /\ upMove(k) > 0
                     THEN RatOf(upMove(k)) ELSE RatOf(0)]
      minusDM == [k \in 1..Len(bars) |->
                    IF k > 1 /\ downMove(k) > upMove(k) /\ downMove(k) > 0
                      THEN RatOf(downMove(k)) ELSE RatOf(0)]
      atr == calculateATR(bars, period).atr
      smoothPlusDM == calculateEMA(plusDM, period)
      smoothMinusDM == calculateEMA(minusDM, period)
      undefined(k) == XIsNaN(atr[k]) \/ atr[k] = RatOf(0)
      pdi(k) == XDiv(XMul(RatOf(100), smoothPlusDM[k]), atr[k])
      mdi(k) == XDiv(XMul(RatOf(100), smoothMinusDM[k]), atr[k])
      plusDI == [k \in 1..Len(bars) |-> IF undefined(k) THEN XNaN ELSE pdi(k)]
      minusDI == [k \in 1..Len(bars) |-> IF undefined(k) THEN XNaN ELSE mdi(k)]
      dx == [k \in 1..Len(bars) |->
               IF undefined(k) THEN XNaN
               ELSE XDiv(XMul(RatOf(100), XAbs(XSub(pdi(k), mdi(k)))), XAdd(pdi(k), mdi(k)))]
  IN [adx |-> calculateEMA(dx, period), plusDI |-> plusDI, minusDI |-> minusDI, dx |-> dx]

\* the bars of data as a series, and their closes: data.map(d => d.close)
BarSeries == [k \in 1..n |-> data[k - 1]]
CloseSeries == [k \in 1..n |-> RatOf(data[k - 1].close)]

\* a call of one indicator function returns: nothing but its result changes
Returns(function, result) ==
  /\ ind' = [function |-> function, result |-> result]
  /\ pc' = "computed"
  /\ UNCHANGED <<strategy, params, n, i, data, currentTrade, trades, signals, tradeId,
                 highestPrice, trailingStop, backtestVars, optimizeVars>>

CallSMA ==
  /\ pc = "calculateSMA"
  /\ Returns(pc, calculateSMA(CloseSeries, params.period))

CallWMA ==
  /\ pc = "calculateWMA"
  /\ Returns(pc, calculateWMA(CloseSeries, params.period))

CallStdDev ==
  /\ pc = "calculateStdDev"
  /\ Returns(pc, calculateStdDev(CloseSeries, params.period))

CallRSI ==
  /\ pc = "calculateRSI"
  /\ Returns(pc, calculateRSI(CloseSeries, params.period))

CallROC ==
  /\ pc = "calculateROC"
  /\ Returns(pc, calculateROC(CloseSeries, params.period))

CallADX ==
  /\ pc = "calculateADX"
  /\ Returns(pc, calculateADX(BarSeries, params.period))

\* the functions called on a series of numbers, and on a series of bars
SeriesFunctions ==
  {"calculateSMA", "calculateWMA", "calculateStdDev", "calculateRSI", "calculateROC"}
BarFunctions == {"calculateADX"}

\* the values of a series of numbers; the closes of the bars and half their ranges
SeriesValues == {0, 1, 2, 4}
BarCloses == {1, 2}
BarRanges == {0, 1}

InitIndicators ==
  /\ strategy = "mean-reversion"
  /\ n \in 0..MaxSeriesLen
  /\ \E period \in 1..(MaxSeriesLen + 1) : params = [period |-> period]
  /\ pc \in SeriesFunctions \cup BarFunctions
  /\ i = 0
  /\ \E c \in [0..(n - 1) -> IF pc \in BarFunctions THEN BarCloses ELSE SeriesValues],
        r \in [0..(n - 1) -> IF pc \in BarFunctions THEN BarRanges ELSE {0}] :
       data = [j \in 0..(n - 1) |-> Bar(c[j] + r[j], c[j] - r[j], c[j], j)]
  /\ ind = <<>>
  /\ currentTrade = null
  /\ trades = <<>>
  /\ signals = <<>>
  /\ tradeId = 0
  /\ highestPrice = 0
  /\ trailingStop = RatOf(0)
  /\ CurveStart(BaseConfig)
  /\ NoOptimizer

NextIndicators ==
  \/ CallSMA
  \/ CallWMA
  \/ CallStdDev
  \/ CallRSI
  \/ CallROC
  \/ CallADX

SpecIndicators == InitIndicators /\ [][NextIndicators]_vars

-----------------------------------------------------------------------------
(* C24: for every period p >= 1 and every series s with length < p,        *)
(* calculateSMA, calculateWMA, calculateStdDev, calculateRSI and           *)
(* calculateROC each return a series of the same length as s in which      *)
(* every index is undefined.                                               *)

C24_ShortSeriesAllUndefined ==
  pc = "computed" /\ ind.function \in SeriesFunctions /\ n < params.period =>
    /\ Len(ind.result) = n
    /\ \A k \in 1..n : IsUndefined(ind.result[k])

C24_Witness ==
  /\ pc = "computed"
  /\ ind.function = "calculateRSI"
  /\ n = 3
  /\ params.period = 4
  /\ \A k \in 1..n : IsUndefined(ind.result[k])

-----------------------------------------------------------------------------
(* C25: calculateADX yields undefined +DI, -DI and ADX at an index where   *)
(* ATR is zero or undefined, and a defined numeric ADX at every index of a *)
(* bar series whose ATR is non-zero at every index; an undefined DX at one *)
(* index does not make ADX undefined at other indices where ATR is         *)
(* non-zero.                                                               *)

\* the indices (positions) of the bars at which ATR is zero or undefined
ATRZeroOrUndefined ==
  LET atr == calculateATR(BarSeries, params.period).atr
  IN {k \in 1..n : XIsNaN(atr[k]) \/ atr[k] = RatOf(0)}

C25_ADXDefinedWhereATRNonZero ==
  pc = "computed" /\ ind.function = "calculateADX" =>
    LET adx == ind.result IN
    /\ \A k \in ATRZeroOrUndefined :
         /\ IsUndefined(adx.plusDI[k])
         /\ IsUndefined(adx.minusDI[k])
         /\ IsUndefined(adx.adx[k])
    /\ ATRZeroOrUndefined = {} => \A k \in 1..n : ~IsUndefined(adx.adx[k])
    /\ \A j, k \in 1..n :
         j # k /\ IsUndefined(adx.dx[j]) /\ k \notin ATRZeroOrUndefined
           => ~IsUndefined(adx.adx[k])

\* what the code does instead: DX is 0/0 at index 0, and the EMA of DX starts from it
ADXUndefinedEverywhere ==
  pc = "computed" /\ ind.function = "calculateADX" =>
    /\ n > 0 => IsUndefined(ind.result.dx[1])
    /\ \A k \in 1..n : IsUndefined(ind.result.adx[k])
    /\ \A k \in ATRZeroOrUndefined :
         IsUndefined(ind.result.plusDI[k]) /\ IsUndefined(ind.result.minusDI[k])

\* a series on which DX is defined and ATR is non-zero at an index after the first
DXDefinedSomewhere ==
  /\ pc = "computed"
  /\ ind.function = "calculateADX"
  /\ ATRZeroOrUndefined = {}
  /\ \E k \in 2..n : ~IsUndefined(ind.result.dx[k])

-----------------------------------------------------------------------------
(* C26: for a strictly increasing input series, calculateRSI keeps         *)
(* avgLoss = 0 at every index >= period, takes the RS = 100 fallback       *)
(* there, and the RSI values after warm-up converge to 100.                *)

StrictlyIncreasing == \A k \in 1..(n - 1) : data[k - 1].close < data[k].close

\* the indices after warm-up: period, period + 1, ...
AfterWarmUp == {idx \in 1..(n - 1) : idx >= params.period}

\* the values after warm-up are one constant, so they converge to 100 only if they are 100
C26_IncreasingSeriesRSIConvergesTo100 ==
  pc = "computed" /\ ind.function = "calculateRSI" /\ StrictlyIncreasing =>
    \A idx \in AfterWarmUp :
      /\ RSIAverages(CloseSeries, params.period, idx).avgLoss = RatOf(0)
      /\ RelativeStrength(RSIAverages(CloseSeries, params.period, idx)) = RatOf(100)
      /\ ind.result[idx + 1] = RatOf(100)

\* what the code does instead: RSI is 100 - 100 / 101 at every index after warm-up
RSIConstantBelow100 ==
  pc = "computed" /\ ind.function = "calculateRSI" /\ StrictlyIncreasing =>
    \A idx \in AfterWarmUp :
      /\ RSIAverages(CloseSeries, params.period, idx).avgLoss = RatOf(0)
      /\ RelativeStrength(RSIAverages(CloseSeries, params.period, idx)) = RatOf(100)
      /\ ind.result[idx + 1] = Rat(10000, 101)

IncreasingSeriesAfterWarmUp ==
  /\ pc = "computed"
  /\ ind.function = "calculateRSI"
  /\ StrictlyIncreasing
  /\ Cardinality(AfterWarmUp) >= 2

-----------------------------------------------------------------------------
(* C27: when the bar series passed to generateEquityCurve contains two or  *)
(* more bars with the same timestamp, a trade whose entry or exit falls on *)
(* that timestamp still has its entry commission deducted exactly once and *)
(* its adjusted PnL added exactly once, so the final equity is the same as *)
(* for the series with the duplicate bars removed.                         *)

\* the bars of data in order, without those that repeat an earlier timestamp
Deduplicated ==
  LET kept == {j \in 0..(n - 1) : \A x \in 0..(j - 1) : data[x].date # data[j].date}
      Pick(k) == CHOOSE j \in kept : Cardinality({x \in kept : x < j}) = k - 1
  IN [k \in 1..Cardinality(kept) |-> data[Pick(k)]]

\* the loop variables after generateEquityCurve has run over bars
RECURSIVE CurveFold(_, _)
CurveFold(st, bars) ==
  IF bars = <<>> THEN st ELSE CurveFold(CurveStep(st, Head(bars)).st, Tail(bars))

\* the running equity (cash) generateEquityCurve ends with on bars
FinalEquity(bars) ==
  CurveFold([equity |-> RatOf(config.initialCapital),
             peakEquity |-> RatOf(config.initialCapital),
             openTrade |-> null, openTradeEntryValue |-> 0], bars).equity

ChargeAt(j) ==
  LET m == {t \in DOMAIN trades : trades[t].entryDate = data[j].date}
      first == CHOOSE t \in m : \A x \in m : t <= x
  IN IF m = {} THEN RatOf(0)
     ELSE RatMul(RatOf(trades[first].entryPrice * trades[first].size), config.commission)

CreditAt(j) ==
  RatSum([t \in DOMAIN trades |->
            IF "exitDate" \in DOMAIN trades[t] /\ trades[t].exitDate = data[j].date
              THEN RatSub(RatSub(RatOf(trades[t].pnl),
                                 RatMul(RatOf(trades[t].exitPrice * trades[t].size), config.slippage)),
                          RatMul(RatOf(trades[t].exitPrice * trades[t].size), config.commission))
              ELSE RatOf(0)])

\* the timestamps carried by two or more bars
RepeatedTimestamps ==
  {data[j].date : j \in {x \in 0..(n - 1) : \E y \in 0..(n - 1) : y # x /\ data[y].date = data[x].date}}

\* no trade is entered or exited at a timestamp that two bars carry
NoTradeOnRepeatedTimestamp ==
  \A t \in DOMAIN trades :
    /\ trades[t].entryDate \notin RepeatedTimestamps
    /\ "exitDate" \in DOMAIN trades[t] => trades[t].exitDate \notin RepeatedTimestamps

-----------------------------------------------------------------------------
(* C28: for stdDevMultiplier >= 0, every trade returned by the             *)
(* mean-reversion strategy has an exitReason that is the take-profit       *)
(* reason, a stop-loss reason or "End of data": the exit reason            *)
(* "Trailing Stop: Price above upper band" is never recorded, because      *)
(* close > upper band implies close >= middle band, which already selects  *)
(* the take-profit reason.                                                 *)

MeanReversionReasons ==
  {"Take Profit: Price reached middle band or RSI overbought", "Stop Loss", "End of data"}

C28_NoTrailingStopReason ==
  strategy = "mean-reversion" /\ Param("stdDevMultiplier", 2) >= 0 =>
    \A t \in DOMAIN trades : trades[t].exitReason \in MeanReversionReasons

\* a trade closed on a bar whose close was above the upper band, RSI not overbought
C28_Witness ==
  /\ strategy = "mean-reversion"
  /\ Param("stdDevMultiplier", 2) >= 0
  /\ \E t \in DOMAIN trades :
       /\ trades[t].exitDate \in DOMAIN ind
       /\ trades[t].exitPrice > ind[trades[t].exitDate].bb.upper
       /\ ind[trades[t].exitDate].rsi <= 70
       /\ trades[t].exitReason = "Take Profit: Price reached middle band or RSI overbought"

\* with a negative multiplier the upper band lies below the middle band and the
\* third reason is recorded
TrailingStopRecorded ==
  /\ strategy = "mean-reversion"
  /\ \E t \in DOMAIN trades : trades[t].exitReason = "Trailing Stop: Price above upper band"

-----------------------------------------------------------------------------
(* C29: for any trade list with at least one CLOSED trade,                 *)
(* calculateMetrics partitions the closed trades into winning (pnl > 0)    *)
(* and losing (pnl <= 0, a zero-pnl trade counting as losing):             *)
(* winningTrades + losingTrades = totalTrades = number of closed trades,   *)
(* and netProfit = grossProfit - grossLoss = the sum of pnl over the       *)
(* closed trades.                                                          *)

\* the positions of the CLOSED trades in the trade list
ClosedPositions == {j \in DOMAIN trades : trades[j].status = "CLOSED"}

\* the sum of pnl over the trades at the positions of S
RECURSIVE PnlOver(_)
PnlOver(S) ==
  IF S = {} THEN 0
  ELSE LET j == CHOOSE x \in S : TRUE IN trades[j].pnl + PnlOver(S \ {j})

C29_WinLossPartition ==
  pc = "returned" /\ ClosedPositions # {} =>
    /\ metrics.winningTrades =
         RatOf(Cardinality({j \in ClosedPositions : trades[j].pnl > 0}))
    /\ metrics.losingTrades =
         RatOf(Cardinality({j \in ClosedPositions : trades[j].pnl <= 0}))
    /\ XAdd(metrics.winningTrades, metrics.losingTrades) = metrics.totalTrades
    /\ metrics.totalTrades = RatOf(Cardinality(ClosedPositions))
    /\ metrics.netProfit = XSub(metrics.grossProfit, metrics.grossLoss)
    /\ metrics.netProfit = RatOf(PnlOver(ClosedPositions))

\* two closed trades, one winning and one with pnl 0, beside which the list may hold more
C29_Witness ==
  /\ pc = "returned"
  /\ Cardinality(ClosedPositions) = 2
  /\ \E j \in ClosedPositions : trades[j].pnl = 0
  /\ \E j \in ClosedPositions : trades[j].pnl > 0
  /\ metrics.winningTrades = RatOf(1)
  /\ metrics.losingTrades = RatOf(1)
  /\ metrics.netProfit = metrics.grossProfit

-----------------------------------------------------------------------------
(* C30: in a runBacktest result with at least one closed trade, strictly   *)
(* increasing bar timestamps, initialCapital > 0 and non-negative          *)
(* commission and slippage, metrics.maxDrawdown equals the maximum of the  *)
(* drawdown field over all points of the returned equity curve: the        *)
(* running peak used by calculateMetrics and the running peak used by      *)
(* generateEquityCurve agree at every bar.                                 *)

\* the running peak of calculateMetrics after the first j points of the curve: peakEquity
\* starts at initialCapital and is replaced by every equity that exceeds it
MetricsPeak(j) ==
  LET seen == {RatOf(config.initialCapital)} \cup {equityCurve[k].equity : k \in 1..j}
  IN CHOOSE p \in seen : \A e \in seen : RatLe(e, p)

\* the largest drawdown field of the curve
MaxCurveDrawdown ==
  CHOOSE d \in {equityCurve[j].drawdown : j \in DOMAIN equityCurve} :
    \A j \in DOMAIN equityCurve : RatLe(equityCurve[j].drawdown, d)

\* after every iteration of generateEquityCurve its peak is the peak calculateMetrics
\* reaches on the points pushed so far, and so for every point of the returned curve
C30_DrawdownPeaksAgree ==
  /\ pc \in {"done", "metrics"} /\ equityCurve # <<>> =>
       LET last == Len(equityCurve)
       IN /\ peakEquity = MetricsPeak(last)
          /\ equityCurve[last].drawdown =
               Drawdown(MetricsPeak(last), equityCurve[last].equity)
  /\ pc = "returned" /\ trades # <<>> =>
       /\ peakEquity = MetricsPeak(Len(equityCurve))
       /\ \A j \in DOMAIN equityCurve :
            equityCurve[j].drawdown = Drawdown(MetricsPeak(j), equityCurve[j].equity)
       /\ metrics.maxDrawdown = MaxCurveDrawdown

\* a result whose peak rose above the initial capital and whose equity fell below the peak
C30_Witness ==
  /\ pc = "returned"
  /\ trades # <<>>
  /\ RatLt(RatOf(config.initialCapital), peakEquity)
  /\ RatLt(RatOf(0), metrics.maxDrawdown)
  /\ metrics.maxDrawdown = MaxCurveDrawdown

====
